------------------------ MODULE SCDNotificationProofs ------------------------
(***************************************************************************)
(* Proofs of what USSs learn of one another: that every change of an       *)
(* operational intent or of a constraint notifies the subscriptions it     *)
(* affects, as long as no search is cut short and no cell union merges     *)
(* cells, and that of two conflicting operational intents one was written  *)
(* knowing the other.                                                      *)
(***************************************************************************)
EXTENDS SCDProofs, FiniteSetTheorems

\* No search is cut short by LIMIT MaxResultLimit.
SubsWithinLimit == IsFiniteSet(SubIds) /\ Cardinality(SubIds) <= MaxResultLimit

\* No two footprints complete a group of siblings.
NoMerging == SiblingCells = {}

\* Subscription row "new" is interested in all that row "old" is interested
\* in, and has been notified as often.
AsInterested(new, old) ==
  /\ new # Nil
  /\ old.cells \subseteq new.cells
  /\ new.start <= old.start
  /\ old.end <= new.end
  /\ new.notifyOps = old.notifyOps
  /\ new.notifyConstraints = old.notifyConstraints
  /\ new.index = old.index

\* What searches in a table find of a subscription they are to find in subs.
Keeps(table) == \A r \in SubIds : subs[r] # Nil => AsInterested(table[r], subs[r])

LEMMA SubsKeepsItself ==
  ASSUME TypeOK
  PROVE  Keeps(subs)
BY DEF TypeOK, Keeps, AsInterested, Sub

\* Within the limit, a search finds every subscription that matches.
LEMMA SubSearchIsComplete ==
  ASSUME SubsWithinLimit, NEW table, NEW v, NEW found \in SearchSubscriptions(table, v)
  PROVE  found = {s \in SubIds : table[s] # Nil /\ MatchesSub(table[s], v)}
<1> DEFINE matching == {s \in SubIds : table[s] # Nil /\ MatchesSub(table[s], v)}
<1>1. /\ matching \subseteq SubIds
      /\ IsFiniteSet(SubIds)
      /\ Cardinality(SubIds) <= MaxResultLimit
  BY DEF SubsWithinLimit
<1> HIDE DEF matching
<1>2. /\ Cardinality(matching) <= Cardinality(SubIds)
      /\ Cardinality(matching) \in Nat /\ Cardinality(SubIds) \in Nat
  BY <1>1, FS_Subset, FS_CardinalityType
<1>3. Limited(matching) = {matching}
  BY <1>1, <1>2, BoundsAssumption DEF Limited
<1> QED
  BY <1>3 DEF SearchSubscriptions, matching

\* A subscription that a volume concerns is found by every search in that
\* volume or in a larger one, also after it was extended.
LEMMA ConcernedIsFound ==
  ASSUME TypeOK, SubsWithinLimit, NoMerging, NEW table \in Table, Keeps(table),
         NEW s \in SubIds, NEW v \in Volume, NEW w \in Volume, Concerns(subs[s], v),
         v.cells \subseteq w.cells, w.start <= v.start, v.end <= w.end,
         NEW found \in SearchSubscriptions(table, w)
  PROVE  s \in found /\ AsInterested(table[s], subs[s])
<1>1. subs[s] # Nil /\ subs[s] \in Sub
  BY DEF Concerns, TypeOK
<1>2. AsInterested(table[s], subs[s]) /\ table[s] \in Sub
  BY <1>1 DEF Keeps, Table, AsInterested
<1>3. SharesCellId(table[s].cells, w.cells)
  <2>1. subs[s].cells \cap v.cells # {}
    BY DEF Concerns, Area, NoMerging
  <2> QED
    BY <1>2, <2>1 DEF AsInterested, SharesCellId
<1>4. TimesOverlap(table[s].start, table[s].end, w)
  <2>1. subs[s].end >= v.start /\ v.end >= subs[s].start
    BY DEF Concerns, TimesOverlap
  <2>2. /\ subs[s].start \in Int /\ subs[s].end \in Int
        /\ table[s].start \in Int /\ table[s].end \in Int
        /\ v.start \in Int /\ v.end \in Int /\ w.start \in Int /\ w.end \in Int
    BY <1>1, <1>2 DEF Sub, Volume
  <2>3. table[s].start <= subs[s].start /\ subs[s].end <= table[s].end
    BY <1>2 DEF AsInterested
  <2>4. table[s].end >= w.start /\ w.end >= table[s].start
    BY <2>1, <2>2, <2>3
  <2> QED
    BY <2>4 DEF TimesOverlap
<1> QED
  BY <1>2, <1>3, <1>4, SubSearchIsComplete DEF MatchesSub, AsInterested

\* The volume searched contains the volume an entity leaves and the one it
\* reaches.
LEMMA NotifyVolumeContains ==
  ASSUME NEW old, old # Nil => old.vol \in Volume, NEW v \in Volume
  PROVE  /\ NotifyVolume(old, v) \in Volume
         /\ \A u \in {v} \cup VolumesOf(old) :
              /\ u \in Volume
              /\ u.cells \subseteq NotifyVolume(old, v).cells
              /\ NotifyVolume(old, v).start <= u.start
              /\ u.end <= NotifyVolume(old, v).end
<1>1. CASE old = Nil
  BY <1>1 DEF NotifyVolume, VolumesOf, Volume
<1>2. CASE old # Nil
  <2> DEFINE w == UnionVolumes4D(v, old.vol)
  <2>1. NotifyVolume(old, v) = w /\ VolumesOf(old) = {old.vol}
    BY <1>2 DEF NotifyVolume, VolumesOf
  <2>2. /\ w.cells = v.cells \cup old.vol.cells
        /\ w.start = MinOf(v.start, old.vol.start)
        /\ w.end = MaxOf(v.end, old.vol.end)
        /\ w.lo = UnionLo(v.lo, old.vol.lo)
        /\ w.hi = UnionHi(v.hi, old.vol.hi)
        /\ w = [cells |-> w.cells, lo |-> w.lo, hi |-> w.hi, start |-> w.start, end |-> w.end]
    BY DEF UnionVolumes4D
  <2> HIDE DEF w
  <2>3. UnionLo(v.lo, old.vol.lo) \in OptInt /\ UnionHi(v.hi, old.vol.hi) \in OptInt
    BY <1>2 DEF UnionLo, UnionHi, MinOf, MaxOf, Volume, OptInt
  <2>4. /\ MinOf(v.start, old.vol.start) \in Int /\ MaxOf(v.end, old.vol.end) \in Int
        /\ MinOf(v.start, old.vol.start) <= v.start
        /\ MinOf(v.start, old.vol.start) <= old.vol.start
        /\ v.end <= MaxOf(v.end, old.vol.end)
        /\ old.vol.end <= MaxOf(v.end, old.vol.end)
    BY <1>2 DEF MinOf, MaxOf, Volume
  <2>5. v.cells \cup old.vol.cells \in SUBSET Cells
    BY <1>2 DEF Volume
  <2>6. w \in Volume
    BY <2>2, <2>3, <2>4, <2>5 DEF Volume
  <2>7. /\ v.cells \subseteq w.cells /\ old.vol.cells \subseteq w.cells
        /\ w.start <= v.start /\ w.start <= old.vol.start
        /\ v.end <= w.end /\ old.vol.end <= w.end
    BY <2>2, <2>4
  <2> QED
    BY <1>2, <2>1, <2>6, <2>7
<1> QED
  BY <1>1, <1>2

\* A row that is found and asks for the kind of entity is incremented once.
LEMMA FoundIsIncremented ==
  ASSUME NEW table \in Table, NEW v, NEW found \in SearchSubscriptions(table, v),
         NEW S \in SUBSET found, NEW s \in S
  PROVE  Incremented(table, S)[s].index = table[s].index + 1
<1>1. S \in SUBSET SubIds /\ \A r \in S : table[r] # Nil
  BY SearchFindsRows
<1> QED
  BY <1>1, IncrementedRows

\* The subscriptions PutOperationalIntentReference searches are those it
\* found, but for a new or extended one.
LEMMA SupportingTableKeeps ==
  ASSUME TypeOK, NoMerging, NEW m \in Managers, NEW i \in OpIds,
         NEW ovn \in Presented(i), PutOperationalIntentReference(m, i, ovn)
  PROVE  \E v \in OpExtents, st \in RequestStates, key \in SUBSET EntityOVNs, s \in SubIds,
            table \in Table :
           StoreOp(m, i, st, v, key, s, table) /\ Keeps(table)
<1>1. PICK v \in OpExtents, st \in RequestStates, key \in SUBSET EntityOVNs, s \in SubIds :
        \/ \E fc \in ConstraintFlags : PutOpWithImplicitSub(m, i, st, v, key, s, fc)
        \/ PutOpWithCoveringSub(m, i, st, v, key, s)
        \/ PutOpExtendingSub(m, i, st, v, key, s)
  BY DEF PutOperationalIntentReference
<1>2. CASE \E fc \in ConstraintFlags : PutOpWithImplicitSub(m, i, st, v, key, s, fc)
  <2>1. PICK fc \in ConstraintFlags : PutOpWithImplicitSub(m, i, st, v, key, s, fc)
    BY <1>2
  <2> DEFINE table == [subs EXCEPT ![s] = NewImplicitSub(m, v, fc)]
  <2>2. subs[s] = Nil /\ StoreOp(m, i, st, v, key, s, table)
    BY <2>1 DEF PutOpWithImplicitSub, FreshSubId
  <2>3. SupportReady(m, v, s, table)
    BY <2>2, ImplicitSubReady
  <2> HIDE DEF table
  <2>4. Keeps(table)
    BY <2>2, <2>3, SubsKeepsItself DEF SupportReady, Keeps
  <2> QED
    BY <2>2, <2>3, <2>4 DEF SupportReady
<1>3. CASE PutOpWithCoveringSub(m, i, st, v, key, s)
  BY <1>3, SubsKeepsItself DEF PutOpWithCoveringSub, TypeOK, Table
<1>4. CASE PutOpExtendingSub(m, i, st, v, key, s)
  <2>1. PICK contained \in ContainsAnswers(subs[s], v.cells) :
          StoreOp(m, i, st, v, key, s, [subs EXCEPT ![s] = ExtendedSub(@, v, contained)])
    BY <1>4 DEF PutOpExtendingSub
  <2> DEFINE table == [subs EXCEPT ![s] = ExtendedSub(@, v, contained)]
  <2>2. subs[s] # Nil /\ subs[s].manager = m /\ subs[s] \in Sub
    BY <1>4 DEF PutOpExtendingSub, TypeOK
  <2>3. SupportReady(m, v, s, table)
    BY <2>2, ExtendedSubReady
  <2>4. /\ subs[s].cells \subseteq ExtendedSub(subs[s], v, contained).cells
        /\ ExtendedSub(subs[s], v, contained).notifyOps = subs[s].notifyOps
        /\ ExtendedSub(subs[s], v, contained).notifyConstraints = subs[s].notifyConstraints
        /\ ExtendedSub(subs[s], v, contained).index = subs[s].index
    BY DEF ExtendedSub, CellUnionFromUnion, Normalize, NoMerging
  <2>5. table[s] = ExtendedSub(subs[s], v, contained)
    BY DEF TypeOK
  <2>6. StoreOp(m, i, st, v, key, s, table)
    BY <2>1
  <2> HIDE DEF table
  <2>7. AsInterested(table[s], subs[s])
    BY <2>2, <2>3, <2>4, <2>5 DEF SupportReady, Supports, AsInterested
  <2>8. Keeps(table)
    BY <2>3, <2>7, SubsKeepsItself DEF SupportReady, Keeps
  <2> QED
    BY <2>3, <2>6, <2>8 DEF SupportReady
<1> QED
  BY <1>1, <1>2, <1>3, <1>4

\* A put searches where the operational intent was and where it goes.
LEMMA PutOpNotifies ==
  ASSUME TypeOK, SubsWithinLimit, NoMerging, NEW m \in Managers, NEW i \in OpIds,
         NEW ovn \in Presented(i), PutOperationalIntentReference(m, i, ovn)
  PROVE  OpChangesNotified
<1>1. PICK v \in OpExtents, st \in RequestStates, key \in SUBSET EntityOVNs, t \in SubIds,
           table \in Table :
        StoreOp(m, i, st, v, key, t, table) /\ Keeps(table)
  BY SupportingTableKeeps
<1>2. PICK found \in SearchSubscriptions(table, NotifyVolume(ops[i], v)) :
        subs' = Incremented(table, NotifiedOfOps(table, found))
  BY <1>1 DEF StoreOp
<1>3. /\ \A j \in OpIds : ops'[j] # ops[j] => j = i
      /\ VolumesOf(ops'[i]) = {v}
  <2>1. ops' = [ops EXCEPT ![i] = ops'[i]]
    BY <1>1, StoreOpStep
  <2>2. ops'[i].vol = v
    BY <1>1, StoreOpRow
  <2>3. ops'[i] # Nil
    <3>1. ops'[i] \in Op
      BY <1>1, StoreOpStep
    <3> QED
      BY <3>1, NilIsNoRow
  <2> QED
    BY <2>1, <2>2, <2>3 DEF TypeOK, VolumesOf
<1>4. v \in Volume /\ (ops[i] # Nil => ops[i].vol \in Volume)
  BY RequestsAssumption DEF TypeOK, Op
<1>5. ASSUME NEW s \in SubIds, NEW u \in VolumesOf(ops[i]) \cup {v}, Concerns(subs[s], u),
             subs[s].notifyOps
      PROVE  subs'[s].index = subs[s].index + 1
  <2> DEFINE w == NotifyVolume(ops[i], v)
  <2>1. /\ w \in Volume
        /\ u \in Volume
        /\ u.cells \subseteq w.cells
        /\ w.start <= u.start
        /\ u.end <= w.end
    BY <1>4, NotifyVolumeContains
  <2>2. found \in SearchSubscriptions(table, w)
    OBVIOUS
  <2> HIDE DEF w
  <2>3. s \in found /\ AsInterested(table[s], subs[s])
    BY <1>1, <1>5, <2>1, <2>2, ConcernedIsFound
  <2>4. s \in NotifiedOfOps(table, found) /\ NotifiedOfOps(table, found) \in SUBSET found
    BY <1>5, <2>3 DEF NotifiedOfOps, AsInterested
  <2>5. subs'[s].index = table[s].index + 1
    BY <1>2, <2>2, <2>4, FoundIsIncremented
  <2> QED
    BY <2>3, <2>5 DEF AsInterested
<1> QED
  BY <1>3, <1>5 DEF OpChangesNotified

\* A deletion searches where the operational intent was, and the implicit
\* subscription it removes need not be notified any more.
LEMMA DeleteOpNotifies ==
  ASSUME TypeOK, SubsWithinLimit, NoMerging, NEW m \in Managers, NEW i \in OpIds, NEW ovn,
         DeleteOperationalIntentReference(m, i, ovn)
  PROVE  OpChangesNotified
<1>1. PICK found \in SearchSubscriptions(subs, ops[i].vol) :
        subs' = [s \in SubIds |->
                   IF s \in RemovedWith(i) THEN Nil
                   ELSE Incremented(subs, NotifiedOfOps(subs, found))[s]]
  BY DEF DeleteOperationalIntentReference
<1>2. /\ ops[i] # Nil
      /\ ops[i].vol \in Volume
      /\ \A j \in OpIds : ops'[j] # ops[j] => j = i
      /\ VolumesOf(ops[i]) \cup VolumesOf(ops'[i]) = {ops[i].vol}
  BY DEF DeleteOperationalIntentReference, TypeOK, Op, VolumesOf
<1>3. subs \in Table /\ Keeps(subs)
  BY SubsKeepsItself DEF TypeOK, Table
<1>4. ASSUME NEW s \in SubIds, Concerns(subs[s], ops[i].vol), subs[s].notifyOps, subs'[s] # Nil
      PROVE  subs'[s].index = subs[s].index + 1
  <2> DEFINE w == ops[i].vol
  <2>1. w \in Volume /\ w.start <= w.start /\ w.end <= w.end
    BY <1>2 DEF Volume
  <2>2. found \in SearchSubscriptions(subs, w) /\ Concerns(subs[s], w)
    BY <1>4
  <2> HIDE DEF w
  <2>3. s \in found
    BY <1>3, <2>1, <2>2, ConcernedIsFound
  <2>4. s \in NotifiedOfOps(subs, found) /\ NotifiedOfOps(subs, found) \in SUBSET found
    BY <1>4, <2>3 DEF NotifiedOfOps
  <2>5. Incremented(subs, NotifiedOfOps(subs, found))[s].index = subs[s].index + 1
    BY <1>3, <2>2, <2>4, FoundIsIncremented
  <2> QED
    BY <1>1, <1>4, <2>5
<1> QED
  BY <1>2, <1>4 DEF OpChangesNotified

\* The same for constraints.
LEMMA ConstraintNotifies ==
  ASSUME TypeOK, SubsWithinLimit, NoMerging, NEW m \in Managers, NEW c \in ConstraintIds,
         ConstraintRequest(m, c)
  PROVE  ConstraintChangesNotified
<1>1. subs \in Table /\ Keeps(subs)
  BY SubsKeepsItself DEF TypeOK, Table
<1>2. constraints[c] # Nil => constraints[c].vol \in Volume
  BY DEF TypeOK, Constraint
\* A search in a volume that contains all those the constraint has.
<1>3. ASSUME NEW w \in Volume, NEW found \in SearchSubscriptions(subs, w),
             subs' = Incremented(subs, NotifiedOfConstraints(subs, found)),
             NEW row, constraints' = [constraints EXCEPT ![c] = row],
             \A u \in VolumesOf(constraints[c]) \cup VolumesOf(row) :
               /\ u \in Volume
               /\ u.cells \subseteq w.cells
               /\ w.start <= u.start
               /\ u.end <= w.end
      PROVE  ConstraintChangesNotified
  <2>1. ASSUME NEW s \in SubIds, NEW u \in VolumesOf(constraints[c]) \cup VolumesOf(row),
               Concerns(subs[s], u), subs[s].notifyConstraints
        PROVE  subs'[s].index = subs[s].index + 1
    <3>1. s \in found
      BY <1>1, <1>3, <2>1, ConcernedIsFound
    <3>2. /\ s \in NotifiedOfConstraints(subs, found)
          /\ NotifiedOfConstraints(subs, found) \in SUBSET found
      BY <2>1, <3>1 DEF NotifiedOfConstraints
    <3> QED
      BY <1>1, <1>3, <3>2, FoundIsIncremented
  <2>2. /\ \A d \in ConstraintIds : constraints'[d] # constraints[d] => d = c
        /\ constraints'[c] = row
    BY <1>3 DEF TypeOK
  <2> QED
    BY <2>1, <2>2 DEF ConstraintChangesNotified
<1>4. ASSUME NEW ovn, NEW v \in OpExtents, PutConstraintReference(m, c, ovn, v)
      PROVE  ConstraintChangesNotified
  <2> DEFINE row == [manager |-> m,
                     version |-> IF constraints[c] = Nil THEN 1 ELSE constraints[c].version + 1,
                     vol |-> v, updated |-> now]
             w == NotifyVolume(constraints[c], v)
  <2>1. constraints' = [constraints EXCEPT ![c] = row]
    BY <1>4 DEF PutConstraintReference
  <2>2. PICK found \in SearchSubscriptions(subs, w) :
          subs' = Incremented(subs, NotifiedOfConstraints(subs, found))
    BY <1>4 DEF PutConstraintReference
  <2>3. v \in Volume
    BY RequestsAssumption
  <2>4. VolumesOf(row) \subseteq {v}
    BY DEF VolumesOf
  <2>5. /\ w \in Volume
        /\ \A u \in {v} \cup VolumesOf(constraints[c]) :
             /\ u \in Volume
             /\ u.cells \subseteq w.cells
             /\ w.start <= u.start
             /\ u.end <= w.end
    BY <1>2, <2>3, NotifyVolumeContains
  <2> HIDE DEF row, w
  <2> QED
    BY <1>3, <2>1, <2>2, <2>4, <2>5
<1>5. ASSUME NEW ovn, DeleteConstraintReference(m, c, ovn)
      PROVE  ConstraintChangesNotified
  <2> DEFINE row == Nil
             w == constraints[c].vol
  <2>1. constraints' = [constraints EXCEPT ![c] = row] /\ constraints[c] # Nil
    BY <1>5 DEF DeleteConstraintReference
  <2>2. PICK found \in SearchSubscriptions(subs, w) :
          subs' = Incremented(subs, NotifiedOfConstraints(subs, found))
    BY <1>5 DEF DeleteConstraintReference
  <2>3. VolumesOf(constraints[c]) \cup VolumesOf(row) = {w}
    BY <2>1 DEF VolumesOf
  <2>4. w \in Volume /\ w.start <= w.start /\ w.end <= w.end
    BY <1>2, <2>1 DEF Volume
  <2> HIDE DEF row, w
  <2> QED
    BY <1>3, <2>1, <2>2, <2>3, <2>4
<1> QED
  BY <1>4, <1>5 DEF ConstraintRequest

LEMMA StepNotifies ==
  ASSUME SubsWithinLimit, NoMerging
  PROVE  TypeOK /\ [Next]_vars => [OpChangesNotified /\ ConstraintChangesNotified]_vars
<1> SUFFICES ASSUME TypeOK, Next PROVE OpChangesNotified /\ ConstraintChangesNotified
  OBVIOUS
\* A step that changes no entity owes nobody a notification.
<1>1. ops' = ops => OpChangesNotified
  BY DEF OpChangesNotified
<1>2. constraints' = constraints => ConstraintChangesNotified
  BY DEF ConstraintChangesNotified
<1>3. CASE Tick
  BY <1>1, <1>2, <1>3 DEF Tick
<1>4. ASSUME NEW m \in Managers, NEW i \in OpIds, NEW ovn \in Presented(i),
             PutOperationalIntentReference(m, i, ovn)
      PROVE  OpChangesNotified /\ ConstraintChangesNotified
  <2>1. constraints' = constraints
    <3>1. PICK st \in RequestStates, v \in OpExtents, key \in SUBSET EntityOVNs,
               s \in SubIds, table \in Table :
            StoreOp(m, i, st, v, key, s, table)
      BY <1>4, PutOpStep
    <3> QED
      BY <3>1 DEF StoreOp
  <2> QED
    BY <1>2, <1>4, <2>1, PutOpNotifies
<1>5. ASSUME NEW m \in Managers, NEW i \in OpIds, NEW ovn \in Issued(i),
             DeleteOperationalIntentReference(m, i, ovn)
      PROVE  OpChangesNotified /\ ConstraintChangesNotified
  <2>1. constraints' = constraints
    BY <1>5 DEF DeleteOperationalIntentReference
  <2> QED
    BY <1>2, <1>5, <2>1, DeleteOpNotifies
<1>6. ASSUME NEW m \in Managers, NEW s \in SubIds, SubscriptionRequest(m, s)
      PROVE  OpChangesNotified /\ ConstraintChangesNotified
  BY <1>1, <1>2, <1>6 DEF SubscriptionRequest, PutSubscription, DeleteSubscription
<1>7. ASSUME NEW m \in Managers, NEW c \in ConstraintIds, ConstraintRequest(m, c)
      PROVE  OpChangesNotified /\ ConstraintChangesNotified
  <2>1. ops' = ops
    BY <1>7, ConstraintStep
  <2> QED
    BY <1>1, <1>7, <2>1, ConstraintNotifies
<1> QED
  BY <1>3, <1>4, <1>5, <1>6, <1>7 DEF Next

\* As long as no search is cut short and no union merges siblings, every
\* change of an operational intent or a constraint increments, once, the index
\* of every subscription that asked for its kind and meets the place it leaves
\* or the place it reaches.
THEOREM AffectedAreNotified ==
  ASSUME SubsWithinLimit, NoMerging
  PROVE  Spec => NotifiesAffected
<1>1. TypeOK /\ [Next]_vars => [OpChangesNotified /\ ConstraintChangesNotified]_vars
  BY StepNotifies
<1> QED
  BY <1>1, InitType, StepType, PTL DEF Spec, NotifiesAffected

-----------------------------------------------------------------------------
(* Operators are informed *)

\* A subscription that the DSS made asks for operational intents.
Attentive(sub) == sub # Nil /\ sub.implicit => sub.notifyOps

Listening == \A s \in SubIds : Attentive(subs[s])

LEMMA PutOpListening ==
  ASSUME TypeOK, Listening, NEW m \in Managers, NEW i \in OpIds,
         NEW ovn \in Presented(i), PutOperationalIntentReference(m, i, ovn)
  PROVE  Listening'
<1>1. PICK v \in OpExtents, st \in RequestStates, key \in SUBSET EntityOVNs, s \in SubIds :
        \/ \E fc \in ConstraintFlags : PutOpWithImplicitSub(m, i, st, v, key, s, fc)
        \/ PutOpWithCoveringSub(m, i, st, v, key, s)
        \/ PutOpExtendingSub(m, i, st, v, key, s)
  BY DEF PutOperationalIntentReference
<1>2. ASSUME NEW table \in Table, StoreOp(m, i, st, v, key, s, table),
             \A r \in SubIds : Attentive(table[r])
      PROVE  Listening'
  <2>1. \A r \in SubIds : Notified(subs'[r], table[r])
    BY <1>2, StoreOpStep
  <2> QED
    BY <1>2, <2>1 DEF Notified, Attentive, Listening
<1>3. CASE \E fc \in ConstraintFlags : PutOpWithImplicitSub(m, i, st, v, key, s, fc)
  <2>1. PICK fc \in ConstraintFlags : PutOpWithImplicitSub(m, i, st, v, key, s, fc)
    BY <1>3
  <2> DEFINE table == [subs EXCEPT ![s] = NewImplicitSub(m, v, fc)]
  <2>2. subs[s] = Nil /\ StoreOp(m, i, st, v, key, s, table)
    BY <2>1 DEF PutOpWithImplicitSub, FreshSubId
  <2>3. SupportReady(m, v, s, table)
    BY <2>2, ImplicitSubReady
  <2>4. Attentive(NewImplicitSub(m, v, fc))
    BY DEF NewImplicitSub, Attentive
  <2>5. table[s] = NewImplicitSub(m, v, fc)
    BY DEF TypeOK
  <2> HIDE DEF table
  <2>6. \A r \in SubIds : Attentive(table[r])
    BY <2>3, <2>4, <2>5 DEF SupportReady, Listening
  <2> QED
    BY <1>2, <2>2, <2>3, <2>6 DEF SupportReady
<1>4. CASE PutOpWithCoveringSub(m, i, st, v, key, s)
  BY <1>2, <1>4 DEF PutOpWithCoveringSub, Listening, TypeOK, Table
<1>5. CASE PutOpExtendingSub(m, i, st, v, key, s)
  <2>1. PICK contained \in ContainsAnswers(subs[s], v.cells) :
          StoreOp(m, i, st, v, key, s, [subs EXCEPT ![s] = ExtendedSub(@, v, contained)])
    BY <1>5 DEF PutOpExtendingSub
  <2> DEFINE table == [subs EXCEPT ![s] = ExtendedSub(@, v, contained)]
  <2>2. subs[s] # Nil /\ subs[s].manager = m
    BY <1>5 DEF PutOpExtendingSub
  <2>3. SupportReady(m, v, s, table)
    BY <2>2, ExtendedSubReady
  <2>4. Attentive(ExtendedSub(subs[s], v, contained))
    BY <2>2 DEF ExtendedSub, Attentive, Listening
  <2>5. table[s] = ExtendedSub(subs[s], v, contained)
    BY DEF TypeOK
  <2>6. StoreOp(m, i, st, v, key, s, table)
    BY <2>1
  <2> HIDE DEF table
  <2>7. \A r \in SubIds : Attentive(table[r])
    BY <2>2, <2>3, <2>4, <2>5 DEF SupportReady, Listening
  <2> QED
    BY <1>2, <2>3, <2>6, <2>7 DEF SupportReady
<1> QED
  BY <1>1, <1>3, <1>4, <1>5

\* A subscription whose flags are taken from a request is no longer implicit.
LEMMA StepListening == TypeOK /\ Listening /\ [Next]_vars => Listening'
<1> SUFFICES ASSUME TypeOK, Listening, [Next]_vars PROVE Listening'
  OBVIOUS
<1>1. CASE subs' = subs
  BY <1>1 DEF Listening
<1>2. ASSUME NEW m \in Managers, NEW i \in OpIds, NEW ovn \in Presented(i),
             PutOperationalIntentReference(m, i, ovn)
      PROVE  Listening'
  BY <1>2, PutOpListening
<1>3. ASSUME NEW m \in Managers, NEW i \in OpIds, NEW ovn \in Issued(i),
             DeleteOperationalIntentReference(m, i, ovn)
      PROVE  Listening'
  <2>1. \A r \in SubIds : Notified(subs'[r], subs[r]) \/ subs'[r] = Nil
    BY <1>3, DeleteOpStep
  <2> QED
    BY <2>1 DEF Notified, Attentive, Listening
<1>4. ASSUME NEW m \in Managers, NEW s \in SubIds, SubscriptionRequest(m, s)
      PROVE  Listening'
  <2>1. ASSUME NEW version, NEW e \in SubExtents, NEW fo \in OpFlags,
               NEW fc \in ConstraintFlags, PutSubscription(m, s, version, e, fo, fc)
        PROVE  Listening'
    <3> DEFINE row == PutSubRow(m, e, AdjustedStart(e, subs[s]), AdjustedEnd(e, subs[s]),
                                fo, fc, subs[s])
    <3>1. subs' = [subs EXCEPT ![s] = row]
      BY <2>1 DEF PutSubscription
    <3>2. Attentive(row)
      BY DEF PutSubRow, Attentive
    <3> HIDE DEF row
    <3> QED
      BY <3>1, <3>2 DEF Listening, TypeOK
  <2>2. ASSUME NEW version, DeleteSubscription(m, s, version)
        PROVE  Listening'
    BY <2>2 DEF DeleteSubscription, Attentive, Listening, TypeOK
  <2> QED
    BY <1>4, <2>1, <2>2 DEF SubscriptionRequest
<1>5. ASSUME NEW m \in Managers, NEW c \in ConstraintIds, ConstraintRequest(m, c)
      PROVE  Listening'
  <2>1. \A r \in SubIds : Notified(subs'[r], subs[r])
    BY <1>5, ConstraintStep
  <2> QED
    BY <2>1 DEF Notified, Attentive, Listening
<1> QED
  BY <1>1, <1>2, <1>3, <1>4, <1>5 DEF Next, Tick, vars

\* The step form of ListeningOperatorInformed.
OthersInform ==
  \A i, j \in OpIds : \A v \in ChangesMeeting(i, j) :
    /\ subs[ops[i].sub].implicit \/ subs[ops[i].sub].notifyOps
    /\ v.end - ops[i].vol.start >= MaxClockSkew
    => SupportNotified(i)

\* What concerns an operational intent, after the skew, concerns the
\* subscription that covers it, and that one is still there after the step.
LEMMA SupportIsConcerned ==
  ASSUME TypeOK, TypeOK', SupportInv, SupportInv', Listening, OpChangesNotified
  PROVE  OthersInform
<1>1. ASSUME NEW i \in OpIds, NEW j \in OpIds, ops[i] # Nil, ops'[i] = ops[i],
             ops'[j] # ops[j],
             NEW v \in VolumesOf(ops[j]) \cup VolumesOf(ops'[j]), MatchesOp(ops[i], v),
             subs[ops[i].sub].implicit \/ subs[ops[i].sub].notifyOps,
             v.end - ops[i].vol.start >= MaxClockSkew
      PROVE  subs'[ops[i].sub].index = subs[ops[i].sub].index + 1
  <2> DEFINE s == ops[i].sub
  <2>1. s \in SubIds /\ ops[i].vol \in Volume
    BY <1>1 DEF TypeOK, Op
  <2>2. v \in Volume
    BY <1>1 DEF VolumesOf, TypeOK, Op
  <2>3. SupportedBy(ops[i], subs[s]) /\ subs'[s] # Nil
    BY <1>1 DEF SupportInv, SupportedBy
  <2>4. subs[s] \in Sub /\ subs[s].notifyOps
    <3>1. subs[s] \in Sub
      BY <2>1, <2>3 DEF SupportedBy, TypeOK
    <3>2. subs[s].implicit => subs[s].notifyOps
      BY <2>1, <2>3 DEF SupportedBy, Listening, Attentive
    <3> QED
      BY <1>1, <3>1, <3>2
  <2>5. Area(subs[s].cells) \cap v.cells # {}
    BY <1>1, <2>3 DEF SupportedBy, CellUnionContains, MatchesOp, SharesCellId
  <2>6. TimesOverlap(subs[s].start, subs[s].end, v)
    <3>1. ops[i].vol.end >= v.start
      BY <1>1 DEF MatchesOp, TimesOverlap
    <3>2. /\ subs[s].start - ops[i].vol.start <= MaxClockSkew
          /\ ops[i].vol.end <= subs[s].end
      BY <2>3 DEF SupportedBy
    <3>3. /\ subs[s].start \in Int /\ subs[s].end \in Int /\ v.start \in Int /\ v.end \in Int
          /\ ops[i].vol.start \in Int /\ ops[i].vol.end \in Int
      BY <2>1, <2>2, <2>4 DEF Sub, Volume
    <3> HIDE DEF s
    <3>4. subs[s].end >= v.start /\ v.end >= subs[s].start
      BY <1>1, <3>1, <3>2, <3>3, BoundsAssumption
    <3> QED
      BY <3>4 DEF TimesOverlap
  <2>7. Concerns(subs[s], v)
    BY <2>3, <2>5, <2>6 DEF Concerns, SupportedBy
  <2> HIDE DEF s
  <2>8. subs'[s].index = subs[s].index + 1
    BY <1>1, <2>1, <2>3, <2>4, <2>7 DEF OpChangesNotified
  <2> QED
    BY <2>8 DEF s
<1> QED
  BY <1>1 DEF OthersInform, ChangesMeeting, SupportNotified

\* The subscription that supports an operational intent is notified of every
\* change of another one that meets it later than the skew, if the DSS made it
\* or it asks for operational intents: the checks of PutSubscription and of
\* PutOperationalIntentReference, the extension of implicit subscriptions and
\* the notification of both places of a move together keep the operator
\* informed.
THEOREM OperatorsAreInformed ==
  ASSUME SubsWithinLimit, NoMerging
  PROVE  Spec => ListeningOperatorInformed
<1>1. Init => TypeOK /\ SupportInv /\ Listening
  BY InitType DEF Init, SupportInv, Listening, Attentive
<1>2. TypeOK /\ [Next]_vars => [OpChangesNotified /\ ConstraintChangesNotified]_vars
  BY StepNotifies
<1>3. TypeOK /\ Listening /\ [Next]_vars => Listening'
  BY StepListening
<1>4. TypeOK /\ TypeOK' /\ SupportInv /\ SupportInv' /\ Listening
        /\ [OpChangesNotified /\ ConstraintChangesNotified]_vars => [OthersInform]_vars
  BY SupportIsConcerned
<1>5. Spec => [][OthersInform]_vars
  BY <1>1, <1>2, <1>3, <1>4, StepType, StepSupport, PTL DEF Spec
<1>6. ListeningOperatorInformed <=> [][OthersInform]_vars
  BY PTL DEF ListeningOperatorInformed, OthersInform
<1> QED
  BY <1>5, <1>6

-----------------------------------------------------------------------------
(* The key check makes conflicting USSs know of one another *)

\* No search is cut short by LIMIT MaxResultLimit.
WithinLimit == IsFiniteSet(OpIds) /\ Cardinality(OpIds) <= MaxResultLimit

\* Conflict is mutual, though the query compares a row to a request.
LEMMA MatchesOpSymmetric ==
  ASSUME NEW op1, NEW op2, MatchesOp(op1, op2.vol)
  PROVE  MatchesOp(op2, op1.vol)
BY DEF MatchesOp, SharesCellId, AtLeast, TimesOverlap

\* Within the limit, a search finds everything that matches.
LEMMA SearchIsComplete ==
  ASSUME WithinLimit, NEW v
  PROVE  SearchOperationalIntents(v) = {{i \in OpIds : ops[i] # Nil /\ MatchesOp(ops[i], v)}}
<1> DEFINE matching == {i \in OpIds : ops[i] # Nil /\ MatchesOp(ops[i], v)}
<1>1. /\ matching \subseteq OpIds
      /\ IsFiniteSet(OpIds)
      /\ Cardinality(OpIds) <= MaxResultLimit
  BY DEF WithinLimit
<1> HIDE DEF matching
<1>2. /\ Cardinality(matching) <= Cardinality(OpIds)
      /\ Cardinality(matching) \in Nat /\ Cardinality(OpIds) \in Nat
  BY <1>1, FS_Subset, FS_CardinalityType
<1>3. Limited(matching) = {matching}
  BY <1>1, <1>2, BoundsAssumption DEF Limited
<1> QED
  BY <1>3 DEF SearchOperationalIntents, matching

\* A write is aware of everything it conflicts with.
LEMMA PutOpAware ==
  ASSUME TypeOK, MutualAwareness, WithinLimit, NEW m \in Managers, NEW i \in OpIds,
         NEW ovn \in Presented(i), PutOperationalIntentReference(m, i, ovn)
  PROVE  MutualAwareness'
<1>1. PICK st \in RequestStates, v \in OpExtents, key \in SUBSET EntityOVNs,
           s \in SubIds, table \in Table :
        StoreOp(m, i, st, v, key, s, table)
  BY PutOpStep
<1>2. /\ ops'[i].state = st
      /\ ops'[i].vol = v
      /\ ops' = [ops EXCEPT ![i] = ops'[i]]
      /\ proved' = [proved EXCEPT ![i] = IF RequiresKey(st) THEN key ELSE {}]
  <2>1. ops'[i].state = st
    BY <1>1, StoreOpRow
  <2>2. ops'[i].vol = v
    BY <1>1, StoreOpRow
  <2>3. ops' = [ops EXCEPT ![i] = ops'[i]]
    BY <1>1, StoreOpStep
  <2>4. proved' = [proved EXCEPT ![i] = IF RequiresKey(st) THEN key ELSE {}]
    BY <1>1 DEF StoreOp
  <2> QED
    BY <2>1, <2>2, <2>3, <2>4
<1>3. \A j \in OpIds : j # i => /\ ops'[j] = ops[j]
                               /\ OpOVN(j)' = OpOVN(j)
                               /\ proved'[j] = proved[j]
  BY <1>2 DEF TypeOK, OpOVN
<1>4. ASSUME RequiresKey(st), NEW j \in OpIds, ops[j] # Nil, MatchesOp(ops[j], v)
      PROVE  OpOVN(j) \in key
  BY <1>1, <1>4, SearchIsComplete DEF StoreOp, KeySuffices
<1>5. ASSUME NEW j \in OpIds, j # i, ops'[j] # Nil, RequiresKey(st), MatchesOp(ops[j], v)
      PROVE  OpOVN(j)' \in proved'[i]
  <2>1. OpOVN(j) \in key
    BY <1>3, <1>4, <1>5
  <2>2. proved'[i] = key
    BY <1>2, <1>5 DEF TypeOK
  <2> QED
    BY <1>3, <1>5, <2>1, <2>2
<1>6. ASSUME NEW j \in OpIds, NEW k \in OpIds, j # k, ops'[j] # Nil, ops'[k] # Nil,
             RequiresKey(ops'[j].state), RequiresKey(ops'[k].state),
             MatchesOp(ops'[j], ops'[k].vol)
      PROVE  OpOVN(k)' \in proved'[j] \/ OpOVN(j)' \in proved'[k]
  <2>1. CASE j = i
    <3>1. MatchesOp(ops'[k], ops'[j].vol)
      BY <1>6, MatchesOpSymmetric
    <3>2. MatchesOp(ops[k], v) /\ RequiresKey(st) /\ k # i
      BY <1>2, <1>3, <1>6, <2>1, <3>1
    <3> QED
      BY <1>5, <1>6, <2>1, <3>2
  <2>2. CASE k = i
    <3>1. MatchesOp(ops[j], v) /\ RequiresKey(st) /\ j # i
      BY <1>2, <1>3, <1>6, <2>2
    <3> QED
      BY <1>5, <1>6, <2>2, <3>1
  <2>3. CASE j # i /\ k # i
    BY <1>3, <1>6, <2>3 DEF MutualAwareness
  <2> QED
    BY <2>1, <2>2, <2>3
<1> QED
  BY <1>6 DEF MutualAwareness

\* Nothing else makes two operational intents conflict or forget a key.
LEMMA StepAware ==
  ASSUME WithinLimit
  PROVE  TypeOK /\ MutualAwareness /\ [Next]_vars => MutualAwareness'
<1> SUFFICES ASSUME TypeOK, MutualAwareness, [Next]_vars PROVE MutualAwareness'
  OBVIOUS
<1>1. CASE UNCHANGED <<ops, proved>>
  BY <1>1 DEF MutualAwareness, OpOVN
<1>2. ASSUME NEW m \in Managers, NEW i \in OpIds, NEW ovn \in Presented(i),
             PutOperationalIntentReference(m, i, ovn)
      PROVE  MutualAwareness'
  BY <1>2, PutOpAware
<1>3. ASSUME NEW m \in Managers, NEW i \in OpIds, NEW ovn \in Issued(i),
             DeleteOperationalIntentReference(m, i, ovn)
      PROVE  MutualAwareness'
  <2>1. ops' = [ops EXCEPT ![i] = Nil] /\ proved' = [proved EXCEPT ![i] = {}]
    BY <1>3, DeleteOpStep
  <2>2. \A j \in OpIds : ops'[j] # Nil => /\ ops'[j] = ops[j]
                                         /\ OpOVN(j)' = OpOVN(j)
                                         /\ proved'[j] = proved[j]
    BY <2>1 DEF TypeOK, OpOVN
  <2> QED
    BY <2>2 DEF MutualAwareness
<1>4. ASSUME NEW m \in Managers, NEW s \in SubIds, SubscriptionRequest(m, s)
      PROVE  UNCHANGED <<ops, proved>>
  BY <1>4 DEF SubscriptionRequest, PutSubscription, DeleteSubscription
<1>5. ASSUME NEW m \in Managers, NEW c \in ConstraintIds, ConstraintRequest(m, c)
      PROVE  UNCHANGED <<ops, proved>>
  BY <1>5, ConstraintStep
<1> QED
  BY <1>1, <1>2, <1>3, <1>4, <1>5 DEF Next, Tick, vars

\* As long as searches are not cut short, of two conflicting operational
\* intents that needed a key one was last written by a USS that showed the
\* other's current OVN, in whatever order they were created, moved, or
\* changed state.
THEOREM ConflictsAreKnown ==
  ASSUME WithinLimit
  PROVE  Spec => []MutualAwareness
<1>1. Init => MutualAwareness
  BY DEF Init, MutualAwareness
<1>2. TypeOK /\ MutualAwareness /\ [Next]_vars => MutualAwareness'
  BY StepAware
<1> QED
  BY <1>1, <1>2, InitType, StepType, PTL DEF Spec

=============================================================================
