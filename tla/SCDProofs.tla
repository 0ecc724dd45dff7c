------------------------------ MODULE SCDProofs ------------------------------
(***************************************************************************)
(* Proofs about SCD, for every value of its constants.  The lemmas say what *)
(* each operation does to the tables; the theorems follow from them.       *)
(***************************************************************************)
EXTENDS SCD, TLAPS

Table == [SubIds -> Sub \cup {Nil}]

\* A search returns ids of rows that are there.
LEMMA SearchFindsRows ==
  ASSUME NEW table, NEW v, NEW found \in SearchSubscriptions(table, v)
  PROVE  /\ found \subseteq SubIds
         /\ \A s \in found : table[s] # Nil
BY DEF SearchSubscriptions, Limited

\* Incrementing indices of existing rows keeps a table well formed, and
\* changes nothing of a row but its index.
LEMMA IncrementedRows ==
  ASSUME NEW table \in Table, NEW S \in SUBSET SubIds,
         \A s \in S : table[s] # Nil
  PROVE  /\ Incremented(table, S) \in Table
         /\ \A s \in SubIds :
              LET new == Incremented(table, S)[s]  old == table[s] IN
              /\ new = Nil <=> old = Nil
              /\ old # Nil =>
                   /\ new.manager = old.manager
                   /\ new.cells = old.cells
                   /\ new.start = old.start
                   /\ new.end = old.end
                   /\ new.updated = old.updated
                   /\ new.notifyOps = old.notifyOps
                   /\ new.implicit = old.implicit
                   /\ new.index = IF s \in S THEN old.index + 1 ELSE old.index
<1>1. ASSUME NEW s \in S
      PROVE  /\ table[s] \in Sub
             /\ [table[s] EXCEPT !.index = @ + 1] \in Sub
             /\ [table[s] EXCEPT !.index = @ + 1] =
                  [manager |-> table[s].manager, cells |-> table[s].cells,
                   start |-> table[s].start, end |-> table[s].end,
                   notifyOps |-> table[s].notifyOps,
                   notifyConstraints |-> table[s].notifyConstraints,
                   implicit |-> table[s].implicit,
                   index |-> table[s].index + 1, updated |-> table[s].updated]
  <2>1. table[s] \in Sub
    BY DEF Table
  <2> QED
    BY <2>1 DEF Sub
<1>2. \A s \in S : [table[s] EXCEPT !.index = @ + 1] # Nil
  <2>1. \A s \in S : [table[s] EXCEPT !.index = @ + 1] \in Sub
    BY <1>1
  <2>2. Nil \notin Sub
    BY NilIsNoRow
  <2> QED
    BY <2>1, <2>2
<1>3. Incremented(table, S) \in Table
  BY <1>1 DEF Incremented, Table
<1> QED
  BY <1>1, <1>2, <1>3 DEF Incremented, Sub

\* What a response reports is a set of indices for each subscription.
LEMMA ReportedIndices ==
  ASSUME NEW table \in Table, NEW S \in SUBSET SubIds,
         \A s \in S : table[s] # Nil,
         told \in [SubIds -> SUBSET Nat]
  PROVE  Reported(table, S) \in [SubIds -> SUBSET Nat]
<1>1. \A s \in S : table[s].index + 1 \in Nat
  BY DEF Table, Sub
<1> QED
  BY <1>1 DEF Reported

-----------------------------------------------------------------------------
(* Area of a cell union *)

\* Normalising a union loses no area, and neither does uniting two.
LEMMA UnionArea ==
  ASSUME NEW cu \in SUBSET StoredCells, NEW cells \in SUBSET Cells
  PROVE  /\ CellUnionFromUnion(cu, cells) \in SUBSET StoredCells
         /\ Area(cu) \subseteq Area(CellUnionFromUnion(cu, cells))
         /\ cells \subseteq Area(CellUnionFromUnion(cu, cells))
<1>1. ParentCell \notin cells /\ SiblingCells \subseteq Cells
  BY CellsAssumption
<1> QED
  BY <1>1 DEF CellUnionFromUnion, Normalize, Area, StoredCells

-----------------------------------------------------------------------------
(* Operational intents *)

\* Row "new" exists and supports whatever row "old" supported.
Supports(new, old) ==
  /\ new # Nil
  /\ new.manager = old.manager
  /\ Area(old.cells) \subseteq Area(new.cells)
  /\ new.start <= old.start
  /\ old.end <= new.end

\* The subscriptions table once PutOperationalIntentReference has its
\* supporting subscription s: only s differs, and it covers volume v.
SupportReady(m, v, s, table) ==
  /\ table \in Table
  /\ \A r \in SubIds : r # s => table[r] = subs[r]
  /\ \A r \in SubIds : subs[r] # Nil => Supports(table[r], subs[r])
  /\ table[s] # Nil
  /\ table[s].manager = m
  /\ CellUnionContains(table[s].cells, v.cells)
  /\ TimesCovered(table[s], v)

\* Reflexivity of Supports on rows.
LEMMA SupportsItself ==
  ASSUME TypeOK
  PROVE  \A r \in SubIds : subs[r] # Nil => Supports(subs[r], subs[r])
BY DEF TypeOK, Supports, Sub

\* The three ways of finding the supporting subscription.
LEMMA ImplicitSubReady ==
  ASSUME TypeOK, NEW m \in Managers, NEW v \in OpExtents, NEW s \in SubIds,
         NEW fc \in ConstraintFlags, subs[s] = Nil
  PROVE  SupportReady(m, v, s, [subs EXCEPT ![s] = NewImplicitSub(m, v, fc)])
<1> DEFINE row == NewImplicitSub(m, v, fc)
           table == [subs EXCEPT ![s] = row]
<1>1. v \in Volume /\ fc \in BOOLEAN
  BY RequestsAssumption
<1>2. row \in Sub
  BY <1>1 DEF NewImplicitSub, Sub, Volume, TypeOK, StoredCells
<1>3. row # Nil
  BY <1>2, NilIsNoRow
<1>4. table \in Table /\ table[s] = row /\ \A r \in SubIds : r # s => table[r] = subs[r]
  BY <1>2 DEF Table, TypeOK
<1>5. /\ row.manager = m
      /\ CellUnionContains(row.cells, v.cells)
      /\ TimesCovered(row, v)
  <2>1. ParentCell \notin v.cells
    BY <1>1, CellsAssumption DEF Volume
  <2> QED
    BY <1>1, <2>1 DEF NewImplicitSub, CellUnionContains, Area, TimesCovered, Volume
<1> HIDE DEF row, table
<1>6. \A r \in SubIds : subs[r] # Nil => Supports(table[r], subs[r])
  BY <1>4, SupportsItself
<1>7. SupportReady(m, v, s, table)
  BY <1>3, <1>4, <1>5, <1>6 DEF SupportReady
<1> QED
  BY <1>7 DEF table, row

LEMMA CoveringSubReady ==
  ASSUME TypeOK, NEW m \in Managers, NEW v \in OpExtents, NEW s \in SubIds,
         subs[s] # Nil, subs[s].manager = m, TimesCovered(subs[s], v),
         TRUE \in ContainsAnswers(subs[s], v.cells)
  PROVE  SupportReady(m, v, s, subs)
<1>1. CellUnionContains(subs[s].cells, v.cells)
  BY DEF ContainsAnswers, CellUnionContains
<1>2. \A r \in SubIds : subs[r] # Nil => Supports(subs[r], subs[r])
  BY SupportsItself
<1> QED
  BY <1>1, <1>2 DEF SupportReady, Table, TypeOK

LEMMA ExtendedSubReady ==
  ASSUME TypeOK, NEW m \in Managers, NEW v \in OpExtents, NEW s \in SubIds,
         subs[s] # Nil, subs[s].manager = m,
         NEW contained \in ContainsAnswers(subs[s], v.cells)
  PROVE  SupportReady(m, v, s, [subs EXCEPT ![s] = ExtendedSub(@, v, contained)])
<1> DEFINE old == subs[s]
           row == ExtendedSub(old, v, contained)
           table == [subs EXCEPT ![s] = row]
<1>1. v \in Volume
  BY RequestsAssumption
<1>2. old \in Sub
  BY DEF TypeOK
<1>3. /\ contained \in BOOLEAN
      /\ contained => CellUnionContains(old.cells, v.cells)
  BY DEF ContainsAnswers, CellUnionContains
<1> DEFINE cells == IF contained THEN old.cells ELSE CellUnionFromUnion(old.cells, v.cells)
<1>4. /\ cells \in SUBSET StoredCells
      /\ Area(old.cells) \subseteq Area(cells)
      /\ v.cells \subseteq Area(cells)
  BY <1>1, <1>2, <1>3, UnionArea DEF CellUnionContains, Sub, Volume
<1>5. row = [manager |-> old.manager, cells |-> cells,
             start |-> MinOf(old.start, v.start), end |-> MaxOf(old.end, v.end),
             notifyOps |-> old.notifyOps, notifyConstraints |-> old.notifyConstraints,
             implicit |-> old.implicit, index |-> old.index, updated |-> now]
  BY DEF ExtendedSub
<1> HIDE DEF cells
<1>6. /\ MinOf(old.start, v.start) \in Int /\ MaxOf(old.end, v.end) \in Int
      /\ MinOf(old.start, v.start) <= old.start /\ MinOf(old.start, v.start) <= v.start
      /\ old.end <= MaxOf(old.end, v.end) /\ v.end <= MaxOf(old.end, v.end)
  BY <1>1, <1>2 DEF MinOf, MaxOf, Sub, Volume
<1>7. now \in Nat
  BY DEF TypeOK
<1> HIDE DEF row
<1>8. row \in Sub
  BY <1>2, <1>4, <1>5, <1>6, <1>7 DEF Sub
<1>9. row # Nil
  BY <1>8, NilIsNoRow
<1>10. Supports(row, old)
  BY <1>4, <1>5, <1>6, <1>9 DEF Supports
<1>11. row.manager = m /\ CellUnionContains(row.cells, v.cells) /\ TimesCovered(row, v)
  BY <1>4, <1>5, <1>6 DEF CellUnionContains, TimesCovered
<1>12. table \in Table /\ table[s] = row /\ \A r \in SubIds : r # s => table[r] = subs[r]
  BY <1>8 DEF Table, TypeOK
<1> HIDE DEF table
<1>13. \A r \in SubIds : subs[r] # Nil => Supports(table[r], subs[r])
  BY <1>10, <1>12, SupportsItself
<1>14. SupportReady(m, v, s, table)
  BY <1>9, <1>11, <1>12, <1>13 DEF SupportReady
<1> QED
  BY <1>14 DEF table, row

\* The OVNs of keys and of ended versions.
LEMMA KnownOVNs ==
  ASSUME TypeOK
  PROVE  /\ EntityOVNs \subseteq OVNs
         /\ \A i \in OpIds : ops[i] # Nil => OpOVN(i) \in OVNs
         /\ \A s \in SubIds : subs[s] # Nil => SubVersion(s) \in OVNs
         /\ \A c \in ConstraintIds : constraints[c] # Nil => ConstraintOVN(c) \in OVNs
<1>1. \A i \in OpIds : ops[i] # Nil => OpOVN(i) \in OVNs
  BY DEF TypeOK, Op, OpOVN, OVN, OVNs
<1>2. \A s \in SubIds : subs[s] # Nil => SubVersion(s) \in OVNs
  BY DEF TypeOK, Sub, SubVersion, OVN, OVNs
<1>3. \A c \in ConstraintIds : constraints[c] # Nil => ConstraintOVN(c) \in OVNs
  BY DEF TypeOK, Constraint, ConstraintOVN, OVN, OVNs
<1> QED
  BY <1>1, <1>2, <1>3 DEF EntityOVNs

\* The three forms of PutOperationalIntentReference as one: some supporting
\* table is made ready, and StoreOp does the rest.
LEMMA PutOpStep ==
  ASSUME TypeOK, NEW m \in Managers, NEW i \in OpIds,
         NEW ovn \in Presented(i), PutOperationalIntentReference(m, i, ovn)
  PROVE  /\ retired' \subseteq OVNs
         /\ \E st \in RequestStates, v \in OpExtents, key \in SUBSET EntityOVNs,
               s \in SubIds, table \in Table :
              /\ MayPutOp(m, i, ovn, st, v)
              /\ SupportReady(m, v, s, table)
              /\ StoreOp(m, i, st, v, key, s, table)
<1>1. PICK st \in RequestStates, v \in OpExtents :
        /\ MayPutOp(m, i, ovn, st, v)
        /\ \E key \in SUBSET EntityOVNs, s \in SubIds :
             \/ \E fc \in ConstraintFlags : PutOpWithImplicitSub(m, i, st, v, key, s, fc)
             \/ PutOpWithCoveringSub(m, i, st, v, key, s)
             \/ PutOpExtendingSub(m, i, st, v, key, s)
  BY DEF PutOperationalIntentReference
<1>2. PICK key \in SUBSET EntityOVNs, s \in SubIds :
        \/ \E fc \in ConstraintFlags : PutOpWithImplicitSub(m, i, st, v, key, s, fc)
        \/ PutOpWithCoveringSub(m, i, st, v, key, s)
        \/ PutOpExtendingSub(m, i, st, v, key, s)
  BY <1>1
<1>3. EndedOpVersion(i) \subseteq OVNs /\ retired \subseteq OVNs
  BY KnownOVNs DEF EndedOpVersion, TypeOK
<1>4. CASE \E fc \in ConstraintFlags : PutOpWithImplicitSub(m, i, st, v, key, s, fc)
  <2>1. PICK fc \in ConstraintFlags : PutOpWithImplicitSub(m, i, st, v, key, s, fc)
    BY <1>4
  <2> DEFINE table == [subs EXCEPT ![s] = NewImplicitSub(m, v, fc)]
  <2>2. /\ subs[s] = Nil
        /\ StoreOp(m, i, st, v, key, s, table)
        /\ retired' \subseteq OVNs
    BY <2>1, <1>3 DEF PutOpWithImplicitSub, FreshSubId
  <2>3. SupportReady(m, v, s, table)
    BY <2>2, ImplicitSubReady
  <2>4. table \in Table
    BY <2>3 DEF SupportReady
  <2> HIDE DEF table
  <2> QED
    BY <1>1, <2>2, <2>3, <2>4
<1>5. CASE PutOpWithCoveringSub(m, i, st, v, key, s)
  <2>1. /\ StoreOp(m, i, st, v, key, s, subs)
        /\ retired' \subseteq OVNs
    BY <1>5, <1>3 DEF PutOpWithCoveringSub
  <2>2. SupportReady(m, v, s, subs)
    BY <1>5, CoveringSubReady DEF PutOpWithCoveringSub
  <2> QED
    BY <1>1, <2>1, <2>2 DEF SupportReady
<1>6. CASE PutOpExtendingSub(m, i, st, v, key, s)
  <2>1. PICK contained \in ContainsAnswers(subs[s], v.cells) :
          StoreOp(m, i, st, v, key, s, [subs EXCEPT ![s] = ExtendedSub(@, v, contained)])
    BY <1>6 DEF PutOpExtendingSub
  <2> DEFINE table == [subs EXCEPT ![s] = ExtendedSub(@, v, contained)]
  <2>2. /\ subs[s] # Nil
        /\ subs[s].manager = m
        /\ retired' \subseteq OVNs
    BY <1>6, <1>3, KnownOVNs DEF PutOpExtendingSub
  <2>3. SupportReady(m, v, s, table)
    BY <2>2, ExtendedSubReady
  <2>4. table \in Table /\ StoreOp(m, i, st, v, key, s, table)
    BY <2>1, <2>3 DEF SupportReady
  <2> HIDE DEF table
  <2> QED
    BY <1>1, <2>2, <2>3, <2>4
<1> QED
  BY <1>2, <1>4, <1>5, <1>6

\* Row "new" is row "old" with, perhaps, a later notification index.
Notified(new, old) ==
  /\ new = Nil <=> old = Nil
  /\ old # Nil => /\ new.manager = old.manager
                  /\ new.cells = old.cells
                  /\ new.start = old.start
                  /\ new.end = old.end
                  /\ new.updated = old.updated
                  /\ new.notifyOps = old.notifyOps
                  /\ new.implicit = old.implicit

\* A notification step on a table, as four handlers make it.
LEMMA NotifyingStep ==
  ASSUME TypeOK, NEW table \in Table, NEW v, NEW found \in SearchSubscriptions(table, v),
         NEW S \in SUBSET found
  PROVE  /\ Incremented(table, S) \in Table
         /\ Reported(table, S) \in [SubIds -> SUBSET Nat]
         /\ \A r \in SubIds : Notified(Incremented(table, S)[r], table[r])
<1>1. S \in SUBSET SubIds /\ \A s \in S : table[s] # Nil
  BY SearchFindsRows
<1>2. told \in [SubIds -> SUBSET Nat]
  BY DEF TypeOK
<1>3. Reported(table, S) \in [SubIds -> SUBSET Nat]
  BY <1>1, <1>2, ReportedIndices
<1> QED
  BY <1>1, <1>3, IncrementedRows DEF Notified

\* The row that the second half of PutOperationalIntentReference writes.
LEMMA StoreOpRow ==
  ASSUME TypeOK, NEW m \in Managers, NEW i \in OpIds, NEW st \in RequestStates,
         NEW v \in OpExtents, NEW key \in SUBSET EntityOVNs, NEW s \in SubIds,
         NEW table \in Table, StoreOp(m, i, st, v, key, s, table)
  PROVE  /\ ops'[i].manager = m /\ ops'[i].state = st /\ ops'[i].vol = v
         /\ ops'[i].sub = s /\ ops'[i].updated = now
<1> DEFINE row == [manager |-> m, version |-> IF ops[i] = Nil THEN 1 ELSE ops[i].version + 1,
                   state |-> st, vol |-> v, sub |-> s, updated |-> now]
<1>1. ops' = [ops EXCEPT ![i] = row]
  BY DEF StoreOp
<1>2. ops'[i] = row
  <2> HIDE DEF row
  <2> QED
    BY <1>1 DEF TypeOK
<1> QED
  BY <1>2

\* What the second half of PutOperationalIntentReference writes.
LEMMA StoreOpStep ==
  ASSUME TypeOK, NEW m \in Managers, NEW i \in OpIds, NEW st \in RequestStates,
         NEW v \in OpExtents, NEW key \in SUBSET EntityOVNs, NEW s \in SubIds,
         NEW table \in Table, StoreOp(m, i, st, v, key, s, table)
  PROVE  /\ ops'[i].manager = m
         /\ ops'[i].state = st
         /\ ops'[i].vol = v
         /\ ops'[i].sub = s
         /\ ops'[i].updated = now
         /\ ops'[i] \in Op
         /\ ops' = [ops EXCEPT ![i] = ops'[i]]
         /\ ops' \in [OpIds -> Op \cup {Nil}]
         /\ proved' = [proved EXCEPT ![i] = IF RequiresKey(st) THEN key ELSE {}]
         /\ proved' \in [OpIds -> SUBSET OVNs]
         /\ subs' \in Table
         /\ \A r \in SubIds : Notified(subs'[r], table[r])
         /\ told' \in [SubIds -> SUBSET Nat]
         /\ UNCHANGED <<now, constraints>>
<1> DEFINE row == [manager |-> m, version |-> IF ops[i] = Nil THEN 1 ELSE ops[i].version + 1,
                   state |-> st, vol |-> v, sub |-> s, updated |-> now]
<1>1. /\ ops' = [ops EXCEPT ![i] = row]
      /\ proved' = [proved EXCEPT ![i] = IF RequiresKey(st) THEN key ELSE {}]
      /\ UNCHANGED <<now, constraints>>
  BY DEF StoreOp
<1>2. PICK found \in SearchSubscriptions(table, NotifyVolume(ops[i], v)) :
        /\ subs' = Incremented(table, NotifiedOfOps(table, found))
        /\ told' = Reported(table, NotifiedOfOps(table, found))
  BY DEF StoreOp
<1>3. NotifiedOfOps(table, found) \in SUBSET found
  BY DEF NotifiedOfOps
<1>4. /\ subs' \in Table
      /\ \A r \in SubIds : Notified(subs'[r], table[r])
      /\ told' \in [SubIds -> SUBSET Nat]
  BY <1>2, <1>3, NotifyingStep
<1>5. row \in Op
  BY RequestsAssumption DEF TypeOK, Op
<1>6. proved' \in [OpIds -> SUBSET OVNs]
  BY <1>1, KnownOVNs DEF TypeOK
<1>7. ops'[i] = row /\ ops' = [ops EXCEPT ![i] = ops'[i]]
  BY <1>1 DEF TypeOK
<1>8. ops' \in [OpIds -> Op \cup {Nil}]
  BY <1>1, <1>5 DEF TypeOK
<1>9. ops'[i] \in Op
  BY <1>5, <1>7
<1>10. /\ ops'[i].manager = m
       /\ ops'[i].state = st
       /\ ops'[i].vol = v
       /\ ops'[i].sub = s
       /\ ops'[i].updated = now
  BY <1>7
<1> HIDE DEF row
<1> QED
  BY <1>1, <1>4, <1>6, <1>7, <1>8, <1>9, <1>10

\* What DeleteOperationalIntentReference leaves.
LEMMA DeleteOpStep ==
  ASSUME TypeOK, NEW m \in Managers, NEW i \in OpIds, NEW ovn,
         DeleteOperationalIntentReference(m, i, ovn)
  PROVE  /\ ops[i] # Nil
         /\ ops' = [ops EXCEPT ![i] = Nil]
         /\ proved' = [proved EXCEPT ![i] = {}]
         /\ \A r \in SubIds : Notified(subs'[r], subs[r]) \/ (r \in RemovedWith(i) /\ subs'[r] = Nil)
         /\ UNCHANGED <<now, constraints>>
         /\ TypeOK'
<1>1. PICK found \in SearchSubscriptions(subs, ops[i].vol) :
        LET S == NotifiedOfOps(subs, found) IN
        /\ subs' = [s \in SubIds |->
                     IF s \in RemovedWith(i) THEN Nil ELSE Incremented(subs, S)[s]]
        /\ told' = [s \in SubIds |->
                     IF s \in RemovedWith(i) THEN {} ELSE Reported(subs, S)[s]]
  BY DEF DeleteOperationalIntentReference
<1> DEFINE S == NotifiedOfOps(subs, found)
           inc == Incremented(subs, S)
           rep == Reported(subs, S)
<1>2. S \in SUBSET found
  BY DEF NotifiedOfOps
<1>3. subs \in Table
  BY DEF TypeOK, Table
<1>4. /\ inc \in Table
      /\ rep \in [SubIds -> SUBSET Nat]
      /\ \A r \in SubIds : Notified(inc[r], subs[r])
  BY <1>2, <1>3, NotifyingStep
<1>5. /\ subs' = [s \in SubIds |-> IF s \in RemovedWith(i) THEN Nil ELSE inc[s]]
      /\ told' = [s \in SubIds |-> IF s \in RemovedWith(i) THEN {} ELSE rep[s]]
  BY <1>1
<1> HIDE DEF inc, rep, S
<1>6. subs' \in Table /\ told' \in [SubIds -> SUBSET Nat]
  <2>1. \A s \in SubIds : inc[s] \in Sub \cup {Nil} /\ rep[s] \in SUBSET Nat
    BY <1>4 DEF Table
  <2>2. subs' \in Table
    BY <1>5, <2>1 DEF Table
  <2>3. \A s \in SubIds : (IF s \in RemovedWith(i) THEN {} ELSE rep[s]) \in SUBSET Nat
    BY <2>1
  <2> QED
    BY <1>5, <2>2, <2>3
<1>7. \A r \in SubIds : Notified(subs'[r], subs[r]) \/ (r \in RemovedWith(i) /\ subs'[r] = Nil)
  BY <1>4, <1>5
<1>8. /\ ops[i] # Nil
      /\ ops' = [ops EXCEPT ![i] = Nil]
      /\ proved' = [proved EXCEPT ![i] = {}]
      /\ retired' = retired \cup {OpOVN(i)} \cup {SubVersion(s) : s \in RemovedWith(i)}
      /\ subs[ops[i].sub] # Nil
      /\ UNCHANGED <<now, constraints>>
  BY DEF DeleteOperationalIntentReference
<1>9. retired' \subseteq OVNs
  <2>1. \A s \in RemovedWith(i) : s \in SubIds /\ subs[s] # Nil
    BY <1>8 DEF RemovedWith
  <2> QED
    BY <1>8, <2>1, KnownOVNs DEF TypeOK
<1>10. TypeOK'
  BY <1>6, <1>8, <1>9 DEF TypeOK, Table
<1> QED
  BY <1>7, <1>8, <1>10

-----------------------------------------------------------------------------
(* Subscriptions and constraints *)

\* What PutSubscription stores: a row that covers the dependents s has.
LEMMA PutSubStep ==
  ASSUME TypeOK, NEW m \in Managers, NEW s \in SubIds, NEW version,
         NEW e \in SubExtents, NEW fo \in OpFlags, NEW fc \in ConstraintFlags,
         PutSubscription(m, s, version, e, fo, fc)
  PROVE  /\ subs'[s] # Nil
         /\ subs[s] # Nil => subs'[s].manager = subs[s].manager
         /\ subs' = [subs EXCEPT ![s] = subs'[s]]
         /\ \A i \in GetDependentOperationalIntents(s) :
              /\ CellUnionContains(subs'[s].cells, ops[i].vol.cells)
              /\ subs'[s].start - ops[i].vol.start <= MaxClockSkew
              /\ ops[i].vol.end <= subs'[s].end
         /\ UNCHANGED <<now, ops, constraints, proved>>
         /\ TypeOK'
<1> DEFINE start == AdjustedStart(e, subs[s])
           end == AdjustedEnd(e, subs[s])
           row == PutSubRow(m, e, start, end, fo, fc, subs[s])
<1>1. /\ subs' = [subs EXCEPT ![s] = row]
      /\ \A i \in GetDependentOperationalIntents(s) : ValidDependentOp(ops[i], e, start, end)
      /\ MayPutSub(m, s, version)
      /\ retired' = retired \cup (IF subs[s] = Nil THEN {} ELSE {SubVersion(s)})
      /\ UNCHANGED <<now, ops, constraints, proved, told>>
  BY DEF PutSubscription
<1>2. e \in SubExtent /\ fo \in BOOLEAN /\ fc \in BOOLEAN
  BY RequestsAssumption
<1>3. subs[s] # Nil => subs[s] \in Sub
  BY DEF TypeOK
<1>4. start \in Int
  BY <1>2, <1>3 DEF AdjustedStart, SubExtent, OptInt, Sub, TypeOK
<1> HIDE DEF start
<1>5. end \in Int
  <2>1. AdjustedStart(e, subs[s]) \in Int
    BY <1>4 DEF start
  <2> QED
    BY <1>2, <1>3, <2>1, BoundsAssumption DEF AdjustedEnd, SubExtent, OptInt, Sub
<1> HIDE DEF end
<1>6. row \in Sub
  BY <1>2, <1>3, <1>4, <1>5 DEF PutSubRow, Sub, SubExtent, StoredCells, TypeOK
<1>7. row # Nil
  BY <1>6, NilIsNoRow
<1>8. /\ subs' \in Table
      /\ subs'[s] = row
      /\ subs' = [subs EXCEPT ![s] = subs'[s]]
  BY <1>1, <1>6 DEF TypeOK, Table
<1>9. subs[s] # Nil => row.manager = subs[s].manager
  BY <1>1 DEF MayPutSub, PutSubRow
<1>10. \A i \in GetDependentOperationalIntents(s) :
         /\ CellUnionContains(row.cells, ops[i].vol.cells)
         /\ row.start - ops[i].vol.start <= MaxClockSkew
         /\ ops[i].vol.end <= row.end
  BY <1>1 DEF ValidDependentOp, PutSubRow
<1>11. retired' \subseteq OVNs
  BY <1>1, KnownOVNs DEF TypeOK
<1> HIDE DEF row
<1>12. TypeOK'
  BY <1>1, <1>8, <1>11 DEF TypeOK, Table
<1> QED
  BY <1>1, <1>7, <1>8, <1>9, <1>10, <1>12

LEMMA DeleteSubStep ==
  ASSUME TypeOK, NEW m \in Managers, NEW s \in SubIds, NEW version,
         DeleteSubscription(m, s, version)
  PROVE  /\ GetDependentOperationalIntents(s) = {}
         /\ subs' = [subs EXCEPT ![s] = Nil]
         /\ UNCHANGED <<now, ops, constraints, proved>>
         /\ TypeOK'
<1>1. /\ subs[s] # Nil
      /\ GetDependentOperationalIntents(s) = {}
      /\ subs' = [subs EXCEPT ![s] = Nil]
      /\ told' = [told EXCEPT ![s] = {}]
      /\ retired' = retired \cup {SubVersion(s)}
      /\ UNCHANGED <<now, ops, constraints, proved>>
  BY DEF DeleteSubscription
<1>2. retired' \subseteq OVNs
  BY <1>1, KnownOVNs DEF TypeOK
<1>3. TypeOK'
  BY <1>1, <1>2 DEF TypeOK
<1> QED
  BY <1>1, <1>3

\* Writing or deleting a constraint touches subscriptions only to notify them.
LEMMA ConstraintStep ==
  ASSUME TypeOK, NEW m \in Managers, NEW c \in ConstraintIds,
         ConstraintRequest(m, c)
  PROVE  /\ \A r \in SubIds : Notified(subs'[r], subs[r])
         /\ UNCHANGED <<now, ops, proved>>
         /\ TypeOK'
<1>1. subs \in Table
  BY DEF TypeOK, Table
<1>2. ASSUME NEW v, NEW found \in SearchSubscriptions(subs, v),
             subs' = Incremented(subs, NotifiedOfConstraints(subs, found)),
             told' = Reported(subs, NotifiedOfConstraints(subs, found))
      PROVE  /\ subs' \in Table
             /\ told' \in [SubIds -> SUBSET Nat]
             /\ \A r \in SubIds : Notified(subs'[r], subs[r])
  <2>1. NotifiedOfConstraints(subs, found) \in SUBSET found
    BY DEF NotifiedOfConstraints
  <2> QED
    BY <1>1, <1>2, <2>1, NotifyingStep
<1>3. ASSUME NEW ovn, NEW v \in OpExtents, PutConstraintReference(m, c, ovn, v)
      PROVE  /\ \A r \in SubIds : Notified(subs'[r], subs[r])
             /\ UNCHANGED <<now, ops, proved>>
             /\ TypeOK'
  <2> DEFINE row == [manager |-> m,
                     version |-> IF constraints[c] = Nil THEN 1 ELSE constraints[c].version + 1,
                     vol |-> v, updated |-> now]
  <2>1. /\ constraints' = [constraints EXCEPT ![c] = row]
        /\ retired' = retired \cup (IF constraints[c] = Nil THEN {} ELSE {ConstraintOVN(c)})
        /\ UNCHANGED <<now, ops, proved>>
    BY <1>3 DEF PutConstraintReference
  <2>2. PICK found \in SearchSubscriptions(subs, NotifyVolume(constraints[c], v)) :
          /\ subs' = Incremented(subs, NotifiedOfConstraints(subs, found))
          /\ told' = Reported(subs, NotifiedOfConstraints(subs, found))
    BY <1>3 DEF PutConstraintReference
  <2>3. row \in Constraint
    BY RequestsAssumption DEF TypeOK, Constraint
  <2> HIDE DEF row
  <2>4. constraints' \in [ConstraintIds -> Constraint \cup {Nil}]
    BY <2>1, <2>3 DEF TypeOK
  <2>5. retired' \subseteq OVNs
    BY <2>1, KnownOVNs DEF TypeOK
  <2>6. /\ subs' \in Table
        /\ told' \in [SubIds -> SUBSET Nat]
        /\ \A r \in SubIds : Notified(subs'[r], subs[r])
    BY <1>2, <2>2
  <2> QED
    BY <2>1, <2>4, <2>5, <2>6 DEF TypeOK, Table
<1>4. ASSUME NEW ovn, DeleteConstraintReference(m, c, ovn)
      PROVE  /\ \A r \in SubIds : Notified(subs'[r], subs[r])
             /\ UNCHANGED <<now, ops, proved>>
             /\ TypeOK'
  <2>1. /\ constraints[c] # Nil
        /\ constraints' = [constraints EXCEPT ![c] = Nil]
        /\ retired' = retired \cup {ConstraintOVN(c)}
        /\ UNCHANGED <<now, ops, proved>>
    BY <1>4 DEF DeleteConstraintReference
  <2>2. PICK found \in SearchSubscriptions(subs, constraints[c].vol) :
          /\ subs' = Incremented(subs, NotifiedOfConstraints(subs, found))
          /\ told' = Reported(subs, NotifiedOfConstraints(subs, found))
    BY <1>4 DEF DeleteConstraintReference
  <2>3. retired' \subseteq OVNs
    BY <2>1, KnownOVNs DEF TypeOK
  <2>4. /\ subs' \in Table
        /\ told' \in [SubIds -> SUBSET Nat]
        /\ \A r \in SubIds : Notified(subs'[r], subs[r])
    BY <1>2, <2>2
  <2> QED
    BY <2>1, <2>3, <2>4 DEF TypeOK, Table
<1> QED
  BY <1>3, <1>4 DEF ConstraintRequest

-----------------------------------------------------------------------------
(* Type correctness *)

LEMMA PutOpType ==
  ASSUME TypeOK, NEW m \in Managers, NEW i \in OpIds,
         NEW ovn \in Presented(i), PutOperationalIntentReference(m, i, ovn)
  PROVE  TypeOK'
<1>1. PICK st \in RequestStates, v \in OpExtents, key \in SUBSET EntityOVNs,
           s \in SubIds, table \in Table :
        StoreOp(m, i, st, v, key, s, table)
  BY PutOpStep
<1>2. retired' \subseteq OVNs
  BY PutOpStep
<1> QED
  BY <1>1, <1>2, StoreOpStep DEF TypeOK, Table

LEMMA InitType == Init => TypeOK
BY DEF Init, TypeOK

LEMMA StepType == TypeOK /\ [Next]_vars => TypeOK'
<1> SUFFICES ASSUME TypeOK, [Next]_vars PROVE TypeOK'
  OBVIOUS
<1>1. CASE UNCHANGED vars
  BY <1>1 DEF vars, TypeOK
<1>2. CASE Tick
  BY <1>2 DEF Tick, TypeOK
<1>3. ASSUME NEW m \in Managers, NEW i \in OpIds, NEW ovn \in Presented(i),
             PutOperationalIntentReference(m, i, ovn)
      PROVE  TypeOK'
  BY <1>3, PutOpType
<1>4. ASSUME NEW m \in Managers, NEW i \in OpIds, NEW ovn \in Issued(i),
             DeleteOperationalIntentReference(m, i, ovn)
      PROVE  TypeOK'
  BY <1>4, DeleteOpStep
<1>5. ASSUME NEW m \in Managers, NEW s \in SubIds, SubscriptionRequest(m, s)
      PROVE  TypeOK'
  BY <1>5, PutSubStep, DeleteSubStep DEF SubscriptionRequest
<1>6. ASSUME NEW m \in Managers, NEW c \in ConstraintIds, ConstraintRequest(m, c)
      PROVE  TypeOK'
  BY <1>6, ConstraintStep
<1> QED
  BY <1>1, <1>2, <1>3, <1>4, <1>5, <1>6 DEF Next

\* The three tables hold well-formed rows in every reachable state, whatever
\* the handlers of pkg/scd are asked.
THEOREM TypeCorrect == Spec => []TypeOK
<1> QED
  BY InitType, StepType, PTL DEF Spec

-----------------------------------------------------------------------------
(* Every operational intent is supported *)

\* Subscription row sub supports the operational intent of row op.
SupportedBy(op, sub) ==
  /\ sub # Nil
  /\ sub.manager = op.manager
  /\ CellUnionContains(sub.cells, op.vol.cells)
  /\ sub.start - op.vol.start <= MaxClockSkew
  /\ op.vol.end <= sub.end

\* SupportExists is not inductive without the times and cells it rests on:
\* both properties are proved as one invariant.
SupportInv ==
  \A i \in OpIds : ops[i] # Nil => SupportedBy(ops[i], subs[ops[i].sub])

\* A row that supports what another did goes on supporting it.
LEMMA SupportKept ==
  ASSUME NEW op \in Op, NEW old \in Sub, NEW new \in Sub,
         Supports(new, old), SupportedBy(op, old)
  PROVE  SupportedBy(op, new)
<1>1. /\ new # Nil
      /\ new.manager = op.manager
      /\ op.vol.cells \subseteq Area(new.cells)
  BY DEF Supports, SupportedBy, CellUnionContains
<1>2. new.start - op.vol.start <= MaxClockSkew /\ op.vol.end <= new.end
  BY BoundsAssumption DEF Supports, SupportedBy, Sub, Op, Volume
<1> QED
  BY <1>1, <1>2 DEF SupportedBy, CellUnionContains

\* A notification takes no support away.
LEMMA NotifiedSupports ==
  ASSUME NEW old, NEW mid \in Sub \cup {Nil}, NEW new,
         Supports(mid, old), Notified(new, mid)
  PROVE  Supports(new, old)
BY DEF Supports, Notified

LEMMA NotifiedRowSupports ==
  ASSUME TypeOK
  PROVE  \A r \in SubIds : subs[r] # Nil /\ Notified(subs'[r], subs[r])
                             => Supports(subs'[r], subs[r])
<1> SUFFICES ASSUME NEW r \in SubIds, subs[r] # Nil, Notified(subs'[r], subs[r])
             PROVE  Supports(subs'[r], subs[r])
  OBVIOUS
<1>1. subs[r] \in Sub /\ Supports(subs[r], subs[r])
  BY SupportsItself DEF TypeOK
<1> QED
  BY <1>1, NotifiedSupports

\* A step that leaves an operational intent alone, and whose change to its
\* subscription supports what was supported, leaves it supported.
LEMMA SupportFrame ==
  ASSUME TypeOK, TypeOK', SupportInv, NEW j \in OpIds,
         ops'[j] = ops[j], ops[j] # Nil,
         Supports(subs'[ops[j].sub], subs[ops[j].sub])
  PROVE  SupportedBy(ops'[j], subs'[ops'[j].sub])
<1>1. ops[j] \in Op /\ ops[j].sub \in SubIds
  BY DEF TypeOK, Op
<1>2. subs[ops[j].sub] \in Sub /\ SupportedBy(ops[j], subs[ops[j].sub])
  BY <1>1 DEF TypeOK, SupportInv, SupportedBy
<1>3. subs'[ops[j].sub] \in Sub
  BY <1>1 DEF TypeOK, Supports
<1> QED
  BY <1>1, <1>2, <1>3, SupportKept

LEMMA PutOpSupport ==
  ASSUME TypeOK, TypeOK', SupportInv, NEW m \in Managers, NEW i \in OpIds,
         NEW ovn \in Presented(i), PutOperationalIntentReference(m, i, ovn)
  PROVE  SupportInv'
<1>1. PICK st \in RequestStates, v \in OpExtents, key \in SUBSET EntityOVNs,
           s \in SubIds, table \in Table :
        SupportReady(m, v, s, table) /\ StoreOp(m, i, st, v, key, s, table)
  BY PutOpStep
<1>2. /\ ops'[i].manager = m /\ ops'[i].vol = v /\ ops'[i].sub = s
      /\ ops' = [ops EXCEPT ![i] = ops'[i]]
      /\ \A r \in SubIds : Notified(subs'[r], table[r])
  <2>1. StoreOp(m, i, st, v, key, s, table)
    BY <1>1
  <2>2. ops'[i].manager = m /\ ops'[i].vol = v /\ ops'[i].sub = s
    BY <2>1, StoreOpRow
  <2>3. ops' = [ops EXCEPT ![i] = ops'[i]]
    BY <2>1, StoreOpStep
  <2>4. \A r \in SubIds : Notified(subs'[r], table[r])
    BY <2>1, StoreOpStep
  <2> QED
    BY <2>2, <2>3, <2>4
<1>3. \A r \in SubIds : subs[r] # Nil => Supports(subs'[r], subs[r])
  <2> SUFFICES ASSUME NEW r \in SubIds, subs[r] # Nil
               PROVE  Supports(subs'[r], subs[r])
    OBVIOUS
  <2>1. table[r] \in Sub \cup {Nil} /\ Supports(table[r], subs[r])
    BY <1>1 DEF SupportReady, Table
  <2> QED
    BY <1>2, <2>1, NotifiedSupports
<1>4. SupportedBy(ops'[i], subs'[ops'[i].sub])
  <2>1. table[s] \in Sub /\ v \in Volume
    BY <1>1, RequestsAssumption DEF SupportReady, Table
  <2>2. /\ table[s].manager = m
        /\ CellUnionContains(table[s].cells, v.cells)
        /\ TimesCovered(table[s], v)
        /\ table[s] # Nil
    BY <1>1 DEF SupportReady
  <2>3. /\ subs'[s] # Nil
        /\ subs'[s].manager = m
        /\ CellUnionContains(subs'[s].cells, v.cells)
        /\ subs'[s].start = table[s].start
        /\ subs'[s].end = table[s].end
    BY <1>2, <2>2 DEF Notified, CellUnionContains
  <2>4. subs'[s].start - v.start <= MaxClockSkew /\ v.end <= subs'[s].end
    BY <2>1, <2>2, <2>3, BoundsAssumption DEF TimesCovered, Sub, Volume
  <2>5. ops'[i].sub = s /\ ops'[i].vol = v /\ ops'[i].manager = m
    BY <1>2
  <2> QED
    BY <2>3, <2>4, <2>5 DEF SupportedBy
<1>5. ASSUME NEW j \in OpIds, ops'[j] # Nil
      PROVE  SupportedBy(ops'[j], subs'[ops'[j].sub])
  <2>1. CASE j = i
    BY <1>4, <2>1
  <2>2. CASE j # i
    <3>1. ops'[j] = ops[j] /\ ops[j] # Nil
      BY <1>2, <1>5, <2>2 DEF TypeOK
    <3>2. ops[j].sub \in SubIds /\ subs[ops[j].sub] # Nil
      BY <3>1 DEF TypeOK, Op, SupportInv, SupportedBy
    <3> QED
      BY <1>3, <3>1, <3>2, SupportFrame
  <2> QED
    BY <2>1, <2>2
<1> QED
  BY <1>5 DEF SupportInv

LEMMA DeleteOpSupport ==
  ASSUME TypeOK, SupportInv, NEW m \in Managers, NEW i \in OpIds, NEW ovn,
         DeleteOperationalIntentReference(m, i, ovn)
  PROVE  SupportInv'
<1>1. /\ ops' = [ops EXCEPT ![i] = Nil]
      /\ \A r \in SubIds : Notified(subs'[r], subs[r]) \/ (r \in RemovedWith(i) /\ subs'[r] = Nil)
      /\ TypeOK'
  BY DeleteOpStep
<1>2. ASSUME NEW j \in OpIds, ops'[j] # Nil
      PROVE  SupportedBy(ops'[j], subs'[ops'[j].sub])
  <2>1. j # i /\ ops'[j] = ops[j] /\ ops[j] # Nil
    BY <1>1, <1>2 DEF TypeOK
  <2>2. ops[j].sub \in SubIds /\ subs[ops[j].sub] # Nil
    BY <2>1 DEF TypeOK, Op, SupportInv, SupportedBy
  <2>3. ops[j].sub \notin RemovedWith(i)
    BY <2>1 DEF RemovedWith, GetDependentOperationalIntents
  <2>4. Notified(subs'[ops[j].sub], subs[ops[j].sub])
    BY <1>1, <2>2, <2>3
  <2>5. Supports(subs'[ops[j].sub], subs[ops[j].sub])
    BY <2>2, <2>4, NotifiedRowSupports
  <2> QED
    BY <1>1, <2>1, <2>5, SupportFrame
<1> QED
  BY <1>2 DEF SupportInv

LEMMA SubscriptionSupport ==
  ASSUME TypeOK, SupportInv, NEW m \in Managers, NEW s \in SubIds,
         SubscriptionRequest(m, s)
  PROVE  SupportInv'
<1>1. ASSUME NEW version, NEW e \in SubExtents, NEW fo \in OpFlags, NEW fc \in ConstraintFlags,
             PutSubscription(m, s, version, e, fo, fc)
      PROVE  SupportInv'
  <2>1. /\ subs'[s] # Nil
        /\ subs[s] # Nil => subs'[s].manager = subs[s].manager
        /\ subs' = [subs EXCEPT ![s] = subs'[s]]
        /\ \A i \in GetDependentOperationalIntents(s) :
             /\ CellUnionContains(subs'[s].cells, ops[i].vol.cells)
             /\ subs'[s].start - ops[i].vol.start <= MaxClockSkew
             /\ ops[i].vol.end <= subs'[s].end
        /\ ops' = ops
    BY <1>1, PutSubStep
  <2>2. ASSUME NEW j \in OpIds, ops[j] # Nil
        PROVE  SupportedBy(ops[j], subs'[ops[j].sub])
    <3>1. ops[j].sub \in SubIds /\ SupportedBy(ops[j], subs[ops[j].sub])
      BY <2>2 DEF TypeOK, Op, SupportInv
    <3>2. CASE ops[j].sub = s
      <4>1. j \in GetDependentOperationalIntents(s)
        BY <2>2, <3>2 DEF GetDependentOperationalIntents
      <4> QED
        BY <2>1, <3>1, <3>2, <4>1 DEF SupportedBy
    <3>3. CASE ops[j].sub # s
      BY <2>1, <3>1, <3>3 DEF TypeOK
    <3> QED
      BY <3>2, <3>3
  <2> QED
    BY <2>1, <2>2 DEF SupportInv
<1>2. ASSUME NEW version, DeleteSubscription(m, s, version)
      PROVE  SupportInv'
  <2>1. /\ GetDependentOperationalIntents(s) = {}
        /\ subs' = [subs EXCEPT ![s] = Nil]
        /\ ops' = ops
    BY <1>2, DeleteSubStep
  <2>2. \A j \in OpIds : ops[j] # Nil => ops[j].sub # s /\ ops[j].sub \in SubIds
    BY <2>1 DEF GetDependentOperationalIntents, TypeOK, Op
  <2> QED
    BY <2>1, <2>2 DEF SupportInv, TypeOK
<1> QED
  BY <1>1, <1>2 DEF SubscriptionRequest

LEMMA StepSupport == TypeOK /\ SupportInv /\ [Next]_vars => SupportInv'
<1> SUFFICES ASSUME TypeOK, SupportInv, [Next]_vars PROVE SupportInv'
  OBVIOUS
<1>0. TypeOK'
  BY StepType
<1>1. CASE UNCHANGED vars
  BY <1>1 DEF vars, SupportInv
<1>2. CASE Tick
  BY <1>2 DEF Tick, SupportInv
<1>3. ASSUME NEW m \in Managers, NEW i \in OpIds, NEW ovn \in Presented(i),
             PutOperationalIntentReference(m, i, ovn)
      PROVE  SupportInv'
  BY <1>0, <1>3, PutOpSupport
<1>4. ASSUME NEW m \in Managers, NEW i \in OpIds, NEW ovn \in Issued(i),
             DeleteOperationalIntentReference(m, i, ovn)
      PROVE  SupportInv'
  BY <1>4, DeleteOpSupport
<1>5. ASSUME NEW m \in Managers, NEW s \in SubIds, SubscriptionRequest(m, s)
      PROVE  SupportInv'
  BY <1>5, SubscriptionSupport
<1>6. ASSUME NEW m \in Managers, NEW c \in ConstraintIds, ConstraintRequest(m, c)
      PROVE  SupportInv'
  <2>1. ops' = ops /\ \A r \in SubIds : Notified(subs'[r], subs[r])
    BY <1>6, ConstraintStep
  <2>2. ASSUME NEW j \in OpIds, ops'[j] # Nil
        PROVE  SupportedBy(ops'[j], subs'[ops'[j].sub])
    <3>1. ops'[j] = ops[j] /\ ops[j] # Nil
      BY <2>1, <2>2
    <3>2. ops[j].sub \in SubIds /\ subs[ops[j].sub] # Nil
      BY <3>1 DEF TypeOK, Op, SupportInv, SupportedBy
    <3>3. Supports(subs'[ops[j].sub], subs[ops[j].sub])
      BY <2>1, <3>2, NotifiedRowSupports
    <3> QED
      BY <1>0, <3>1, <3>3, SupportFrame
  <2> QED
    BY <2>2 DEF SupportInv
<1> QED
  BY <1>1, <1>2, <1>3, <1>4, <1>5, <1>6 DEF Next

\* No interleaving of the handlers of pkg/scd leaves an operational intent
\* without a subscription of its own USS, for any number of USSs, ids and
\* requests and any query limit.
THEOREM SupportNeverDangles == Spec => []SupportExists
<1>1. Init => SupportInv
  BY DEF Init, SupportInv
<1>2. SupportInv => SupportExists
  BY DEF SupportInv, SupportExists, SupportedBy
<1> QED
  BY <1>1, <1>2, InitType, StepType, StepSupport, PTL DEF Spec

\* That subscription covers the cells and the end of its operational intent,
\* and its start up to MaxClockSkew: an invariant that PutSubscription and
\* PutOperationalIntentReference maintain from two sides.
THEOREM SupportAlwaysCovers == Spec => []SupportCovers
<1>1. Init => SupportInv
  BY DEF Init, SupportInv
<1>2. SupportInv => SupportCovers
  BY DEF SupportInv, SupportCovers, SupportedBy
<1> QED
  BY <1>1, <1>2, InitType, StepType, StepSupport, PTL DEF Spec

=============================================================================
