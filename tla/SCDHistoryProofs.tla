--------------------------- MODULE SCDHistoryProofs ---------------------------
(***************************************************************************)
(* Proofs about what clients of SCD have been told over time: notification *)
(* indices and OVNs, and what becomes of those who write with an OVN.      *)
(***************************************************************************)
EXTENDS SCDProofs, SCDSessions

-----------------------------------------------------------------------------
(* Notification indices *)

\* History hist is that of table: a row was reported as 1, 2, ... up to its
\* index, and a missing row not at all.
Tells(hist, table) ==
  \A s \in SubIds : hist[s] = IF table[s] = Nil THEN {} ELSE 1..table[s].index

\* NotificationGapFree says nothing of missing rows, but the id of one may be
\* used again, by a subscription that starts from index 0.
IndexInv == Tells(told, subs)

\* A notification step goes on with the history of the table it is made on.
LEMMA NotifyingTells ==
  ASSUME TypeOK, NEW table \in Table, Tells(told, table), NEW v,
         NEW found \in SearchSubscriptions(table, v), NEW S \in SUBSET found
  PROVE  Tells(Reported(table, S), Incremented(table, S))
<1>1. S \in SUBSET SubIds /\ \A s \in S : table[s] # Nil
  BY SearchFindsRows
<1> DEFINE new == Incremented(table, S)
<1>2. \A s \in SubIds :
        /\ new[s] = Nil <=> table[s] = Nil
        /\ table[s] # Nil =>
             new[s].index = IF s \in S THEN table[s].index + 1 ELSE table[s].index
  BY <1>1, IncrementedRows
<1> HIDE DEF new
<1>3. ASSUME NEW s \in SubIds
      PROVE  Reported(table, S)[s] = IF new[s] = Nil THEN {} ELSE 1..new[s].index
  <2>1. told[s] = IF table[s] = Nil THEN {} ELSE 1..table[s].index
    BY DEF Tells
  <2>2. CASE s \in S
    <3>1. Reported(table, S)[s] = 1..table[s].index \cup {table[s].index + 1}
      BY <1>1, <2>1, <2>2 DEF Reported
    <3>2. table[s].index \in Nat
      BY <1>1, <2>2 DEF Table, Sub
    <3>3. new[s] # Nil /\ new[s].index = table[s].index + 1
      BY <1>1, <1>2, <2>2
    <3> QED
      BY <3>1, <3>2, <3>3
  <2>3. CASE s \notin S
    BY <1>2, <2>1, <2>3 DEF Reported
  <2> QED
    BY <2>2, <2>3
<1> QED
  BY <1>3 DEF Tells, new

\* The supporting subscription enters StoreOp with the index it has been
\* told of: a new one with 0, an extended one with its own.
LEMMA PutOpTells ==
  ASSUME TypeOK, IndexInv, NEW m \in Managers, NEW i \in OpIds,
         NEW ovn \in Presented(i), PutOperationalIntentReference(m, i, ovn)
  PROVE  IndexInv'
<1>1. PICK v \in OpExtents, st \in RequestStates, key \in SUBSET EntityOVNs, s \in SubIds :
        \/ \E fc \in ConstraintFlags : PutOpWithImplicitSub(m, i, st, v, key, s, fc)
        \/ PutOpWithCoveringSub(m, i, st, v, key, s)
        \/ PutOpExtendingSub(m, i, st, v, key, s)
  BY DEF PutOperationalIntentReference
<1>2. ASSUME NEW table \in Table, Tells(told, table), StoreOp(m, i, st, v, key, s, table)
      PROVE  IndexInv'
  <2>1. PICK found \in SearchSubscriptions(table, NotifyVolume(ops[i], v)) :
          /\ subs' = Incremented(table, NotifiedOfOps(table, found))
          /\ told' = Reported(table, NotifiedOfOps(table, found))
    BY <1>2 DEF StoreOp
  <2>2. NotifiedOfOps(table, found) \in SUBSET found
    BY DEF NotifiedOfOps
  <2> QED
    BY <1>2, <2>1, <2>2, NotifyingTells DEF IndexInv
<1>3. CASE \E fc \in ConstraintFlags : PutOpWithImplicitSub(m, i, st, v, key, s, fc)
  <2>1. PICK fc \in ConstraintFlags : PutOpWithImplicitSub(m, i, st, v, key, s, fc)
    BY <1>3
  <2> DEFINE table == [subs EXCEPT ![s] = NewImplicitSub(m, v, fc)]
  <2>2. subs[s] = Nil /\ StoreOp(m, i, st, v, key, s, table)
    BY <2>1 DEF PutOpWithImplicitSub, FreshSubId
  <2>3. SupportReady(m, v, s, table)
    BY <2>2, ImplicitSubReady
  <2>4. NewImplicitSub(m, v, fc).index = 0
    BY DEF NewImplicitSub
  <2>5. table[s].index = 0
    BY <2>4 DEF TypeOK
  <2> HIDE DEF table
  <2>6. Tells(told, table)
    BY <2>2, <2>3, <2>5 DEF SupportReady, IndexInv, Tells
  <2> QED
    BY <1>2, <2>2, <2>3, <2>6 DEF SupportReady
<1>4. CASE PutOpWithCoveringSub(m, i, st, v, key, s)
  BY <1>2, <1>4 DEF PutOpWithCoveringSub, IndexInv, TypeOK, Table
<1>5. CASE PutOpExtendingSub(m, i, st, v, key, s)
  <2>1. PICK contained \in ContainsAnswers(subs[s], v.cells) :
          StoreOp(m, i, st, v, key, s, [subs EXCEPT ![s] = ExtendedSub(@, v, contained)])
    BY <1>5 DEF PutOpExtendingSub
  <2> DEFINE table == [subs EXCEPT ![s] = ExtendedSub(@, v, contained)]
  <2>2. subs[s] # Nil /\ subs[s].manager = m
    BY <1>5 DEF PutOpExtendingSub
  <2>3. SupportReady(m, v, s, table)
    BY <2>2, ExtendedSubReady
  <2>4. ExtendedSub(subs[s], v, contained).index = subs[s].index
    BY DEF ExtendedSub
  <2>5. table[s].index = subs[s].index
    BY <2>4 DEF TypeOK
  <2>6. StoreOp(m, i, st, v, key, s, table)
    BY <2>1
  <2> HIDE DEF table
  <2>7. Tells(told, table)
    BY <2>2, <2>3, <2>5 DEF SupportReady, IndexInv, Tells
  <2> QED
    BY <1>2, <2>3, <2>6, <2>7 DEF SupportReady
<1> QED
  BY <1>1, <1>3, <1>4, <1>5

\* A deleted implicit subscription takes its history with it.
LEMMA DeleteOpTells ==
  ASSUME TypeOK, IndexInv, NEW m \in Managers, NEW i \in OpIds, NEW ovn,
         DeleteOperationalIntentReference(m, i, ovn)
  PROVE  IndexInv'
<1>1. PICK found \in SearchSubscriptions(subs, ops[i].vol) :
        LET S == NotifiedOfOps(subs, found) IN
        /\ subs' = [s \in SubIds |->
                     IF s \in RemovedWith(i) THEN Nil ELSE Incremented(subs, S)[s]]
        /\ told' = [s \in SubIds |->
                     IF s \in RemovedWith(i) THEN {} ELSE Reported(subs, S)[s]]
  BY DEF DeleteOperationalIntentReference
<1> DEFINE S == NotifiedOfOps(subs, found)
           inc == Incremented(subs, S)
           rep == Reported(subs, S)
<1>2. S \in SUBSET found /\ subs \in Table
  BY DEF NotifiedOfOps, TypeOK, Table
<1>3. Tells(rep, inc)
  BY <1>2, NotifyingTells DEF IndexInv
<1>4. /\ subs' = [s \in SubIds |-> IF s \in RemovedWith(i) THEN Nil ELSE inc[s]]
      /\ told' = [s \in SubIds |-> IF s \in RemovedWith(i) THEN {} ELSE rep[s]]
  BY <1>1
<1> HIDE DEF inc, rep, S
<1> QED
  BY <1>3, <1>4 DEF IndexInv, Tells

\* An update of a subscription keeps the index, a creation starts from 0, and
\* a deletion forgets it.
LEMMA SubscriptionTells ==
  ASSUME TypeOK, IndexInv, NEW m \in Managers, NEW s \in SubIds, SubscriptionRequest(m, s)
  PROVE  IndexInv'
<1>1. ASSUME NEW version, NEW e, NEW fo, NEW fc, PutSubscription(m, s, version, e, fo, fc),
             NEW row, subs' = [subs EXCEPT ![s] = row], row # Nil,
             row.index = IF subs[s] = Nil THEN 0 ELSE subs[s].index
      PROVE  IndexInv'
  <2>1. told' = told
    BY <1>1 DEF PutSubscription
  <2>2. told[s] = IF subs[s] = Nil THEN {} ELSE 1..subs[s].index
    BY DEF IndexInv, Tells
  <2>3. told[s] = 1..row.index
    BY <1>1, <2>2
  <2>4. \A r \in SubIds : subs'[r] = IF r = s THEN row ELSE subs[r]
    BY <1>1 DEF TypeOK
  <2> QED
    BY <1>1, <2>1, <2>3, <2>4 DEF IndexInv, Tells
<1>2. ASSUME NEW version, NEW e \in SubExtents, NEW fo \in OpFlags, NEW fc \in ConstraintFlags,
             PutSubscription(m, s, version, e, fo, fc)
      PROVE  IndexInv'
  <2> DEFINE row == PutSubRow(m, e, AdjustedStart(e, subs[s]), AdjustedEnd(e, subs[s]),
                              fo, fc, subs[s])
  <2>1. subs' = [subs EXCEPT ![s] = row]
    BY <1>2 DEF PutSubscription
  <2>2. subs'[s] # Nil
    BY <1>2, PutSubStep
  <2>3. row # Nil
    BY <2>1, <2>2 DEF TypeOK
  <2>4. row.index = IF subs[s] = Nil THEN 0 ELSE subs[s].index
    BY DEF PutSubRow
  <2> HIDE DEF row
  <2> QED
    BY <1>1, <1>2, <2>1, <2>3, <2>4
<1>3. ASSUME NEW version, DeleteSubscription(m, s, version)
      PROVE  IndexInv'
  <2>1. subs' = [subs EXCEPT ![s] = Nil] /\ told' = [told EXCEPT ![s] = {}]
    BY <1>3 DEF DeleteSubscription
  <2> QED
    BY <2>1 DEF IndexInv, Tells, TypeOK
<1> QED
  BY <1>2, <1>3 DEF SubscriptionRequest

LEMMA ConstraintTells ==
  ASSUME TypeOK, IndexInv, NEW m \in Managers, NEW c \in ConstraintIds,
         ConstraintRequest(m, c)
  PROVE  IndexInv'
<1>1. PICK v : \E found \in SearchSubscriptions(subs, v) :
        /\ subs' = Incremented(subs, NotifiedOfConstraints(subs, found))
        /\ told' = Reported(subs, NotifiedOfConstraints(subs, found))
  BY DEF ConstraintRequest, PutConstraintReference, DeleteConstraintReference
<1>2. PICK found \in SearchSubscriptions(subs, v) :
        /\ subs' = Incremented(subs, NotifiedOfConstraints(subs, found))
        /\ told' = Reported(subs, NotifiedOfConstraints(subs, found))
  BY <1>1
<1>3. NotifiedOfConstraints(subs, found) \in SUBSET found /\ subs \in Table
  BY DEF NotifiedOfConstraints, TypeOK, Table
<1> QED
  BY <1>2, <1>3, NotifyingTells DEF IndexInv

LEMMA StepTells == TypeOK /\ IndexInv /\ [Next]_vars => IndexInv'
<1> SUFFICES ASSUME TypeOK, IndexInv, [Next]_vars PROVE IndexInv'
  OBVIOUS
<1>1. CASE UNCHANGED vars
  BY <1>1 DEF vars, IndexInv, Tells
<1>2. CASE Tick
  BY <1>2 DEF Tick, IndexInv, Tells
<1>3. ASSUME NEW m \in Managers, NEW i \in OpIds, NEW ovn \in Presented(i),
             PutOperationalIntentReference(m, i, ovn)
      PROVE  IndexInv'
  BY <1>3, PutOpTells
<1>4. ASSUME NEW m \in Managers, NEW i \in OpIds, NEW ovn \in Issued(i),
             DeleteOperationalIntentReference(m, i, ovn)
      PROVE  IndexInv'
  BY <1>4, DeleteOpTells
<1>5. ASSUME NEW m \in Managers, NEW s \in SubIds, SubscriptionRequest(m, s)
      PROVE  IndexInv'
  BY <1>5, SubscriptionTells
<1>6. ASSUME NEW m \in Managers, NEW c \in ConstraintIds, ConstraintRequest(m, c)
      PROVE  IndexInv'
  BY <1>6, ConstraintTells
<1> QED
  BY <1>1, <1>2, <1>3, <1>4, <1>5, <1>6 DEF Next

\* The indices reported of a subscription's row have no gap and end with the
\* stored index:
\* IncrementNotificationIndices, PutSubscription and the two ways in which
\* implicit subscriptions come and go never lose count.
THEOREM IndicesHaveNoGap == Spec => []NotificationGapFree
<1>1. Init => IndexInv
  BY DEF Init, IndexInv, Tells
<1>2. IndexInv => NotificationGapFree
  BY DEF IndexInv, Tells, NotificationGapFree
<1>3. TypeOK /\ IndexInv /\ [Next]_vars => IndexInv'
  BY StepTells
<1> QED
  BY <1>1, <1>2, <1>3, InitType, StepType, PTL DEF Spec

-----------------------------------------------------------------------------
(* Reading, modifying and writing *)

\* The id an OVN is made for, and the second.
IdOf(ovn) == ovn[1]
SecondOf(ovn) == ovn[2]

\* The OVNs that anyone who asked for an operational intent or a constraint
\* may have been given.
Seen == retired \cup EntityOVNs

\* A reading is of a version that its entity has or once had, and that was made
\* before this second.
Settled(reading) ==
  /\ IdOf(reading.ovn) = reading.entity.id
  /\ reading.ovn \in Seen
  /\ SecondOf(reading.ovn) < now

\* A write that outdates a reading is made in a later second than what was
\* read, and so has another OVN.
SessionInv ==
  /\ TypeOK
  /\ read \in [Sessions -> Reading \cup {Nil}]
  /\ \A x \in Sessions : read[x] # Nil => Settled(read[x])

\* A deletion of e.
Delete(m, e) ==
  \E ovn \in Issued(e.id) :
    \/ e.kind = "op" /\ DeleteOperationalIntentReference(m, e.id, ovn)
    \/ e.kind = "constraint" /\ DeleteConstraintReference(m, e.id, ovn)

\* The row of e is the only one that may change.
OnlyRow(e) == \A f \in Entities : f # e => Row(f)' = Row(f)

\* Of the entities that change, the old version is not forgotten.
Retires ==
  /\ retired \subseteq retired'
  /\ \A f \in Entities : Row(f) # Nil => Row(f)' = Row(f) \/ CurrentOVN(f) \in retired'

LEMMA EntityFields ==
  ASSUME NEW e \in Entities
  PROVE  \/ e.kind = "op" /\ e.id \in OpIds /\ Row(e) = ops[e.id] /\ CurrentOVN(e) = OpOVN(e.id)
         \/ /\ e.kind = "constraint" /\ e.id \in ConstraintIds
            /\ Row(e) = constraints[e.id] /\ CurrentOVN(e) = ConstraintOVN(e.id)
BY DEF Entities, Row, CurrentOVN, OpOVN, ConstraintOVN

LEMMA OpEntity ==
  ASSUME NEW i \in OpIds
  PROVE  \E e \in Entities : e.kind = "op" /\ e.id = i
<1> DEFINE e == [kind |-> "op", id |-> i]
<1>1. e \in Entities /\ e.kind = "op" /\ e.id = i
  BY DEF Entities
<1> QED
  BY <1>1

LEMMA ConstraintEntity ==
  ASSUME NEW c \in ConstraintIds
  PROVE  \E e \in Entities : e.kind = "constraint" /\ e.id = c
<1> DEFINE e == [kind |-> "constraint", id |-> c]
<1>1. e \in Entities /\ e.kind = "constraint" /\ e.id = c
  BY DEF Entities
<1> QED
  BY <1>1

\* Two entities of one kind and one id are the same.
LEMMA SameEntity ==
  ASSUME NEW e \in Entities, NEW f \in Entities, e.kind = f.kind, e.id = f.id
  PROVE  e = f
<1>1. e = [kind |-> e.kind, id |-> e.id] /\ f = [kind |-> f.kind, id |-> f.id]
  BY DEF Entities
<1> QED
  BY <1>1

\* The current version of an entity has been seen, and it is no missing value.
LEMMA CurrentSeen ==
  ASSUME TypeOK, NEW e \in Entities, Row(e) # Nil
  PROVE  /\ CurrentOVN(e) \in Seen
         /\ CurrentOVN(e) \in OVNs
         /\ CurrentOVN(e) # Nil
         /\ IdOf(CurrentOVN(e)) = e.id
<1>1. CurrentOVN(e) \in EntityOVNs
  BY EntityFields DEF EntityOVNs
<1>2. CurrentOVN(e) \in OVNs
  BY <1>1, KnownOVNs
<1> QED
  BY <1>1, <1>2, NilIsNoReading DEF Seen, CurrentOVN, IdOf, OVN

\* What was seen once has been seen forever.
LEMMA SeenGrows ==
  ASSUME Retires
  PROVE  Seen \subseteq Seen'
<1>1. ASSUME NEW e \in Entities, Row(e) # Nil
      PROVE  CurrentOVN(e) \in Seen'
  <2>1. CASE CurrentOVN(e) \in retired'
    BY <2>1 DEF Seen
  <2>2. CASE Row(e)' = Row(e)
    <3>1. CurrentOVN(e)' = CurrentOVN(e)
      BY <2>2 DEF CurrentOVN
    <3>2. CASE e.kind = "op"
      <4>1. e.id \in OpIds /\ ops'[e.id] # Nil /\ CurrentOVN(e)' = OpOVN(e.id)'
        BY <1>1, <2>2, <3>2 DEF Entities, Row, CurrentOVN, OpOVN
      <4> QED
        BY <3>1, <4>1 DEF Seen, EntityOVNs
    <3>3. CASE e.kind = "constraint"
      <4>1. /\ e.id \in ConstraintIds /\ constraints'[e.id] # Nil
            /\ CurrentOVN(e)' = ConstraintOVN(e.id)'
        BY <1>1, <2>2, <3>3 DEF Entities, Row, CurrentOVN, ConstraintOVN
      <4> QED
        BY <3>1, <4>1 DEF Seen, EntityOVNs
    <3> QED
      BY <3>2, <3>3, EntityFields
  <2> QED
    BY <1>1, <2>1, <2>2 DEF Retires
<1>2. ASSUME NEW i \in OpIds, ops[i] # Nil
      PROVE  OpOVN(i) \in Seen'
  <2>1. PICK e \in Entities : e.kind = "op" /\ e.id = i
    BY OpEntity
  <2>2. Row(e) = ops[i] /\ CurrentOVN(e) = OpOVN(i)
    BY <2>1, EntityFields
  <2> QED
    BY <1>1, <1>2, <2>2
<1>3. ASSUME NEW c \in ConstraintIds, constraints[c] # Nil
      PROVE  ConstraintOVN(c) \in Seen'
  <2>1. PICK e \in Entities : e.kind = "constraint" /\ e.id = c
    BY ConstraintEntity
  <2>2. Row(e) = constraints[c] /\ CurrentOVN(e) = ConstraintOVN(c)
    BY <2>1, EntityFields
  <2> QED
    BY <1>1, <1>3, <2>2
<1>4. retired \subseteq Seen'
  BY DEF Seen, Retires
<1> QED
  BY <1>2, <1>3, <1>4 DEF Seen, EntityOVNs

\* A request that writes e writes the row of e and no other, on the version it
\* names, and gives e a version of this second.
Writes(e, ovn) ==
  /\ OnlyRow(e)
  /\ Retires
  /\ \/ Row(e) = Nil /\ ovn = Nil
     \/ Row(e) # Nil /\ ovn = CurrentOVN(e)
  /\ Row(e)' # Nil
  /\ CurrentOVN(e)' = OVN(e.id, now)
  /\ now' = now

LEMMA PutOpWrites ==
  ASSUME TypeOK, NEW m \in Managers, NEW e \in Entities, e.kind = "op",
         NEW ovn \in Presented(e.id), PutOperationalIntentReference(m, e.id, ovn)
  PROVE  Writes(e, ovn)
<1> DEFINE i == e.id
<1>1. i \in OpIds /\ Row(e) = ops[i] /\ CurrentOVN(e) = OpOVN(i) /\ Row(e)' = ops'[i]
  BY DEF Entities, Row, CurrentOVN, OpOVN
<1> HIDE DEF i
<1>2. PICK st \in RequestStates, v \in OpExtents, key \in SUBSET EntityOVNs,
          s \in SubIds, table \in Table :
        /\ MayPutOp(m, i, ovn, st, v)
        /\ StoreOp(m, i, st, v, key, s, table)
  BY <1>1, PutOpStep DEF i
<1>3. ops'[i] \in Op /\ ops' = [ops EXCEPT ![i] = ops'[i]] /\ UNCHANGED <<now, constraints>>
  <2>1. ops'[i] \in Op /\ ops' = [ops EXCEPT ![i] = ops'[i]]
    BY <1>1, <1>2, StoreOpStep
  <2>2. UNCHANGED <<now, constraints>>
    BY <1>2 DEF StoreOp
  <2> QED
    BY <2>1, <2>2
<1>4. ops'[i].updated = now
  BY <1>1, <1>2, StoreOpRow
<1>5. OnlyRow(e)
  <2> SUFFICES ASSUME NEW f \in Entities, f # e
               PROVE  Row(f)' = Row(f)
    BY DEF OnlyRow
  <2>1. CASE f.kind = "op"
    <3>1. f.id \in OpIds /\ f.id # i
      BY <2>1, SameEntity, EntityFields DEF i
    <3>2. ops'[f.id] = ops[f.id]
      BY <1>3, <3>1 DEF TypeOK
    <3> QED
      BY <2>1, <3>2 DEF Row
  <2>2. CASE f.kind # "op"
    BY <1>3, <2>2 DEF Row
  <2> QED
    BY <2>1, <2>2
<1>6. EndedOpVersion(i) \subseteq retired' /\ retired \subseteq retired'
  <2>1. PutOperationalIntentReference(m, i, ovn)
    BY DEF i
  <2>2. PICK st2, v2, key2, s2 :
          \/ \E fc \in ConstraintFlags : PutOpWithImplicitSub(m, i, st2, v2, key2, s2, fc)
          \/ PutOpWithCoveringSub(m, i, st2, v2, key2, s2)
          \/ PutOpExtendingSub(m, i, st2, v2, key2, s2)
    BY <2>1 DEF PutOperationalIntentReference
  <2> QED
    BY <2>2 DEF PutOpWithImplicitSub, PutOpWithCoveringSub, PutOpExtendingSub
<1>7. Retires
  <2>1. Row(e) # Nil => CurrentOVN(e) \in retired'
    BY <1>1, <1>6 DEF EndedOpVersion
  <2> QED
    BY <1>5, <1>6, <2>1 DEF Retires, OnlyRow
<1>8. \/ Row(e) = Nil /\ ovn = Nil
      \/ Row(e) # Nil /\ ovn = CurrentOVN(e)
  BY <1>1, <1>2 DEF MayPutOp
<1>9. Row(e)' # Nil
  BY <1>1, <1>3, NilIsNoRow
<1>10. CurrentOVN(e)' = OVN(e.id, now)
  BY <1>1, <1>4 DEF CurrentOVN, i
<1> QED
  BY <1>3, <1>5, <1>7, <1>8, <1>9, <1>10 DEF Writes

LEMMA PutConstraintWrites ==
  ASSUME TypeOK, NEW m \in Managers, NEW e \in Entities,
         e.kind = "constraint", NEW ovn, NEW v \in OpExtents,
         PutConstraintReference(m, e.id, ovn, v)
  PROVE  Writes(e, ovn)
<1> DEFINE c == e.id
           row == [manager |-> m,
                   version |-> IF constraints[c] = Nil THEN 1 ELSE constraints[c].version + 1,
                   vol |-> v, updated |-> now]
<1>1. /\ c \in ConstraintIds /\ Row(e) = constraints[c] /\ Row(e)' = constraints'[c]
      /\ CurrentOVN(e) = ConstraintOVN(c)
  BY DEF Entities, Row, CurrentOVN, ConstraintOVN
<1>2. /\ constraints' = [constraints EXCEPT ![c] = row]
      /\ retired' = retired \cup (IF constraints[c] = Nil THEN {} ELSE {ConstraintOVN(c)})
      /\ UNCHANGED <<now, ops>>
  BY DEF PutConstraintReference
<1>3. IF constraints[c] = Nil THEN ovn = Nil
      ELSE constraints[c].manager = m /\ ovn = ConstraintOVN(c)
  BY DEF PutConstraintReference
<1> HIDE DEF c
<1>4. row.updated = now /\ row \in Constraint
  BY <1>1, RequestsAssumption DEF TypeOK, Constraint
<1> HIDE DEF row
<1>5. constraints'[c] = row /\ \A d \in ConstraintIds : d # c => constraints'[d] = constraints[d]
  BY <1>1, <1>2 DEF TypeOK
<1>6. OnlyRow(e)
  <2> SUFFICES ASSUME NEW f \in Entities, f # e
               PROVE  Row(f)' = Row(f)
    BY DEF OnlyRow
  <2>1. CASE f.kind = "op"
    BY <1>2, <2>1 DEF Row
  <2>2. CASE f.kind = "constraint"
    <3>1. f.id \in ConstraintIds /\ f.id # c
      BY <2>2, SameEntity, EntityFields DEF c
    <3> QED
      BY <1>5, <2>2, <3>1 DEF Row
  <2> QED
    BY <2>1, <2>2, EntityFields
<1>7. Retires
  <2>1. Row(e) # Nil => CurrentOVN(e) \in retired'
    BY <1>1, <1>2
  <2> QED
    BY <1>2, <1>6, <2>1 DEF Retires, OnlyRow
<1>8. \/ Row(e) = Nil /\ ovn = Nil
      \/ Row(e) # Nil /\ ovn = CurrentOVN(e)
  BY <1>1, <1>3
<1>9. Row(e)' # Nil
  BY <1>1, <1>4, <1>5, NilIsNoRow
<1>10. CurrentOVN(e)' = OVN(e.id, now)
  BY <1>1, <1>4, <1>5 DEF CurrentOVN, c
<1> QED
  BY <1>2, <1>6, <1>7, <1>8, <1>9, <1>10 DEF Writes

LEMMA PutWrites ==
  ASSUME TypeOK, NEW m \in Managers, NEW e \in Entities,
         NEW ovn \in Presented(e.id), Put(m, e, ovn)
  PROVE  Writes(e, ovn) /\ TypeOK'
<1>1. CASE e.kind = "op"
  <2>1. PutOperationalIntentReference(m, e.id, ovn)
    BY <1>1 DEF Put
  <2>2. e.id \in OpIds
    BY <1>1, EntityFields
  <2> QED
    BY <1>1, <2>1, <2>2, PutOpWrites, PutOpType
<1>2. CASE e.kind = "constraint"
  <2>1. PICK v \in OpExtents : PutConstraintReference(m, e.id, ovn, v)
    BY <1>2 DEF Put
  <2>2. e.id \in ConstraintIds
    BY <1>2, EntityFields
  <2>3. ConstraintRequest(m, e.id)
    BY <2>1 DEF ConstraintRequest
  <2> QED
    BY <1>2, <2>1, <2>2, <2>3, PutConstraintWrites, ConstraintStep
<1> QED
  BY <1>1, <1>2, EntityFields

\* A deletion removes the row of e and no other.
LEMMA DeleteRemoves ==
  ASSUME TypeOK, NEW m \in Managers, NEW e \in Entities, Delete(m, e)
  PROVE  /\ OnlyRow(e)
         /\ Retires
         /\ Row(e) # Nil
         /\ Row(e)' = Nil
         /\ now' = now
         /\ TypeOK'
<1>1. CASE e.kind = "op"
  <2> DEFINE i == e.id
  <2>1. PICK ovn \in Issued(i) : DeleteOperationalIntentReference(m, i, ovn)
    BY <1>1 DEF Delete
  <2>2. i \in OpIds /\ Row(e) = ops[i] /\ Row(e)' = ops'[i] /\ CurrentOVN(e) = OpOVN(i)
    BY <1>1 DEF Entities, Row, CurrentOVN, OpOVN
  <2>3. /\ ops[i] # Nil
        /\ ops' = [ops EXCEPT ![i] = Nil]
        /\ UNCHANGED <<now, constraints>>
        /\ TypeOK'
    BY <2>1, <2>2, DeleteOpStep DEF DeleteOperationalIntentReference
  <2>4. OpOVN(i) \in retired' /\ retired \subseteq retired'
    BY <2>1 DEF DeleteOperationalIntentReference
  <2> HIDE DEF i
  <2>5. ops'[i] = Nil /\ \A j \in OpIds : j # i => ops'[j] = ops[j]
    BY <2>2, <2>3 DEF TypeOK
  <2>6. ASSUME NEW f \in Entities, f # e
        PROVE  Row(f)' = Row(f)
    <3>1. CASE f.kind = "op"
      <4>1. f.id \in OpIds /\ f.id # i
        BY <1>1, <2>6, <3>1, SameEntity, EntityFields DEF i
      <4> QED
        BY <2>5, <3>1, <4>1 DEF Row
    <3>2. CASE f.kind # "op"
      BY <2>3, <3>2 DEF Row
    <3> QED
      BY <3>1, <3>2
  <2> QED
    BY <2>2, <2>3, <2>4, <2>5, <2>6 DEF OnlyRow, Retires
<1>2. CASE e.kind = "constraint"
  <2> DEFINE c == e.id
  <2>1. PICK ovn \in Issued(c) : DeleteConstraintReference(m, c, ovn)
    BY <1>2 DEF Delete
  <2>2. /\ c \in ConstraintIds /\ Row(e) = constraints[c] /\ Row(e)' = constraints'[c]
        /\ CurrentOVN(e) = ConstraintOVN(c)
    BY <1>2 DEF Entities, Row, CurrentOVN, ConstraintOVN
  <2>3. /\ constraints[c] # Nil
        /\ constraints' = [constraints EXCEPT ![c] = Nil]
        /\ retired' = retired \cup {ConstraintOVN(c)}
        /\ UNCHANGED <<now, ops>>
    BY <2>1 DEF DeleteConstraintReference
  <2>4. TypeOK'
    <3>1. ConstraintRequest(m, c)
      BY <2>1 DEF ConstraintRequest
    <3> QED
      BY <2>2, <3>1, ConstraintStep
  <2> HIDE DEF c
  <2>5. constraints'[c] = Nil /\ \A d \in ConstraintIds : d # c => constraints'[d] = constraints[d]
    BY <2>2, <2>3 DEF TypeOK
  <2>6. ASSUME NEW f \in Entities, f # e
        PROVE  Row(f)' = Row(f)
    <3>1. CASE f.kind = "op"
      BY <2>3, <3>1 DEF Row
    <3>2. CASE f.kind = "constraint"
      <4>1. f.id \in ConstraintIds /\ f.id # c
        BY <1>2, <2>6, <3>2, SameEntity, EntityFields DEF c
      <4> QED
        BY <2>5, <3>2, <4>1 DEF Row
    <3> QED
      BY <3>1, <3>2, EntityFields
  <2> QED
    BY <2>2, <2>3, <2>4, <2>5, <2>6 DEF OnlyRow, Retires
<1> QED
  BY <1>1, <1>2, EntityFields

\* The other steps leave the entities alone.
LEMMA OtherStep ==
  ASSUME TypeOK, Tick \/ \E m \in Managers, s \in SubIds : SubscriptionRequest(m, s)
  PROVE  UNCHANGED <<ops, constraints>> /\ Retires /\ now <= now' /\ TypeOK'
<1>1. UNCHANGED <<ops, constraints>> /\ retired \subseteq retired'
  BY DEF Tick, SubscriptionRequest, PutSubscription, DeleteSubscription
<1>2. now <= now'
  BY DEF Tick, SubscriptionRequest, PutSubscription, DeleteSubscription, TypeOK
<1>3. \A f \in Entities : Row(f)' = Row(f)
  BY <1>1 DEF Row
<1>4. TypeOK'
  BY StepType DEF Next
<1> QED
  BY <1>1, <1>2, <1>3, <1>4 DEF Retires

\* Every step of SCD writes an entity, removes one, or is such another step.
LEMMA KindsOfStep ==
  ASSUME Next
  PROVE  \/ \E m \in Managers, e \in Entities : \E ovn \in Presented(e.id) : Put(m, e, ovn)
         \/ \E m \in Managers, e \in Entities : Delete(m, e)
         \/ Tick \/ \E m \in Managers, s \in SubIds : SubscriptionRequest(m, s)
<1>1. ASSUME NEW m \in Managers, NEW i \in OpIds, NEW ovn \in Presented(i),
             PutOperationalIntentReference(m, i, ovn)
      PROVE  \E e \in Entities : \E o \in Presented(e.id) : Put(m, e, o)
  <2>1. PICK e \in Entities : e.kind = "op" /\ e.id = i
    BY OpEntity
  <2> QED
    BY <1>1, <2>1 DEF Put
<1>2. ASSUME NEW m \in Managers, NEW i \in OpIds, NEW ovn \in Issued(i),
             DeleteOperationalIntentReference(m, i, ovn)
      PROVE  \E e \in Entities : Delete(m, e)
  <2>1. PICK e \in Entities : e.kind = "op" /\ e.id = i
    BY OpEntity
  <2> QED
    BY <1>2, <2>1 DEF Delete
<1>3. ASSUME NEW m \in Managers, NEW c \in ConstraintIds, ConstraintRequest(m, c)
      PROVE  \/ \E e \in Entities : \E o \in Presented(e.id) : Put(m, e, o)
             \/ \E e \in Entities : Delete(m, e)
  <2>1. PICK e \in Entities : e.kind = "constraint" /\ e.id = c
    BY ConstraintEntity
  <2>2. CASE \E ovn \in Presented(c), v \in OpExtents : PutConstraintReference(m, c, ovn, v)
    BY <2>1, <2>2 DEF Put
  <2>3. CASE \E ovn \in Issued(c) : DeleteConstraintReference(m, c, ovn)
    BY <2>1, <2>3 DEF Delete
  <2> QED
    BY <1>3, <2>2, <2>3 DEF ConstraintRequest
<1> QED
  BY <1>1, <1>2, <1>3 DEF Next

\* Readings that stay as they are stay settled.
LEMMA StaysSettled ==
  ASSUME SessionInv, TypeOK', Retires, now <= now', UNCHANGED read
  PROVE  SessionInv'
<1>1. ASSUME NEW x \in Sessions, read[x] # Nil
      PROVE  Settled(read[x])'
  <2>1. read[x].ovn \in OVNs /\ Settled(read[x])
    BY <1>1 DEF SessionInv, Reading
  <2>2. SecondOf(read[x].ovn) \in Nat
    BY <2>1 DEF SecondOf, OVNs
  <2>3. now \in Nat /\ now' \in Nat
    BY DEF SessionInv, TypeOK
  <2>4. SecondOf(read[x].ovn) < now'
    BY <2>1, <2>2, <2>3 DEF Settled
  <2>5. read[x].ovn \in Seen'
    BY <2>1, SeenGrows DEF Settled
  <2>6. IdOf(read[x].ovn) = read[x].entity.id
    BY <2>1 DEF Settled
  <2> QED
    BY <2>4, <2>5, <2>6 DEF Settled
<1> QED
  BY <1>1 DEF SessionInv

\* Whoever had the value of e loses it when e is removed or gets a version of
\* this second, and keeps the value of any other entity.
LEMMA OutdatedBasis ==
  ASSUME SessionInv, UNCHANGED read, NEW y \in Sessions, NEW e \in Entities,
         OnlyRow(e), Row(e)' = Nil \/ CurrentOVN(e)' = OVN(e.id, now)
  PROVE  Basis(y)' = IF Basis(y) = e THEN Nil ELSE Basis(y)
<1>0. Nil \notin Entities
  BY NilIsNoReading
<1>1. CASE read[y] = Nil
  BY <1>0, <1>1 DEF Basis
<1>2. CASE read[y] # Nil
  <2> DEFINE f == read[y].entity
  <2>1. f \in Entities /\ SecondOf(read[y].ovn) < now /\ read[y].ovn \in OVNs
    BY <1>2 DEF SessionInv, Reading, Settled
  <2>2. CASE f = e
    <3>1. SecondOf(OVN(e.id, now)) = now /\ now \in Nat
      BY DEF SecondOf, OVN, SessionInv, TypeOK
    <3>2. read[y].ovn # OVN(e.id, now)
      BY <2>1, <3>1
    <3>3. Basis(y)' = Nil
      BY <1>2, <2>2, <3>2 DEF Basis
    <3>4. Basis(y) \in {e, Nil}
      BY <2>2 DEF Basis
    <3> QED
      BY <1>0, <3>3, <3>4
  <2>3. CASE f # e
    <3>1. Row(f)' = Row(f)
      BY <2>1, <2>3 DEF OnlyRow
    <3>2. CurrentOVN(f)' = CurrentOVN(f)
      BY <3>1 DEF CurrentOVN
    <3>3. Basis(y)' = Basis(y)
      BY <1>2, <3>1, <3>2 DEF Basis
    <3>4. Basis(y) \in {f, Nil}
      BY DEF Basis
    <3> QED
      BY <1>0, <2>3, <3>3, <3>4
  <2> QED
    BY <2>2, <2>3
<1> QED
  BY <1>1, <1>2

\* The abstract state, as Register sees it.
Values == [e \in Entities |-> Row(e)]
Bases == [x \in Sessions |-> Basis(x)]

\* A step that writes or removes e is one that changes e for everybody.
LEMMA ChangeSimulated ==
  ASSUME SessionInv, UNCHANGED read, NEW e \in Entities, OnlyRow(e),
         Row(e)' = Nil \/ CurrentOVN(e)' = OVN(e.id, now)
  PROVE  Register!Changes(e)
<1>1. Values' = [Values EXCEPT ![e] = Values'[e]]
  BY DEF Values, OnlyRow
<1>2. \A y \in Sessions : Basis(y)' = IF Basis(y) = e THEN Nil ELSE Basis(y)
  BY OutdatedBasis
<1>3. Bases' = [y \in Sessions |-> IF Bases[y] = e THEN Nil ELSE Bases[y]]
  BY <1>2 DEF Bases
<1> QED
  BY <1>1, <1>3 DEF Register!Changes, Register!Outdated, Values, Bases

LEMMA GetSimulated ==
  ASSUME SessionInv, NEW x \in Sessions, NEW m \in Managers, NEW e \in Entities, Get(x, m, e)
  PROVE  Register!Read(x, e) /\ SessionInv'
<1> DEFINE reading == [manager |-> m, entity |-> e, ovn |-> CurrentOVN(e)]
<1>1. /\ Row(e) # Nil
      /\ Row(e).updated < now
      /\ read' = [read EXCEPT ![x] = reading]
      /\ writer' = Nil
      /\ UNCHANGED <<now, ops, subs, constraints, retired, proved, told>>
  BY DEF Get, vars
<1>2. /\ \A f \in Entities : Row(f)' = Row(f) /\ CurrentOVN(f)' = CurrentOVN(f)
      /\ Seen' = Seen
      /\ TypeOK'
  BY <1>1 DEF Row, CurrentOVN, SessionInv, TypeOK, Seen, EntityOVNs, OpOVN, ConstraintOVN
<1>3. /\ CurrentOVN(e) \in Seen /\ CurrentOVN(e) \in OVNs
      /\ IdOf(CurrentOVN(e)) = e.id
      /\ SecondOf(CurrentOVN(e)) < now
  BY <1>1, CurrentSeen DEF SessionInv, SecondOf, CurrentOVN, OVN
<1>4. /\ reading \in Reading
      /\ reading.entity = e
      /\ reading.ovn = CurrentOVN(e)
  BY <1>3 DEF Reading
<1> HIDE DEF reading
<1>5. reading # Nil
  BY <1>4, NilIsNoReading
<1>6. SessionInv'
  <2>1. ASSUME NEW y \in Sessions, read'[y] # Nil
        PROVE  Settled(read[y])'
    <3>1. CASE y = x
      <4>1. read'[y] = reading
        BY <1>1, <3>1 DEF SessionInv
      <4> QED
        BY <1>1, <1>2, <1>3, <1>4, <4>1 DEF Settled
    <3>2. CASE y # x
      <4>1. read'[y] = read[y]
        BY <1>1, <3>2 DEF SessionInv
      <4> QED
        BY <1>1, <1>2, <2>1, <4>1 DEF SessionInv, Settled
    <3> QED
      BY <3>1, <3>2
  <2>2. read' \in [Sessions -> Reading \cup {Nil}]
    BY <1>1, <1>4 DEF SessionInv
  <2> QED
    BY <1>2, <2>1, <2>2 DEF SessionInv
<1>7. Basis(x)' = e
  <2>1. read'[x] = reading
    BY <1>1 DEF SessionInv
  <2> QED
    BY <1>1, <1>2, <1>4, <1>5, <2>1 DEF Basis
<1>8. \A y \in Sessions : y # x => Basis(y)' = Basis(y)
  <2> SUFFICES ASSUME NEW y \in Sessions, y # x
               PROVE  Basis(y)' = Basis(y)
    OBVIOUS
  <2>1. read'[y] = read[y]
    BY <1>1 DEF SessionInv
  <2>2. read[y] # Nil => read[y].entity \in Entities
    BY DEF SessionInv, Reading
  <2> QED
    BY <1>2, <2>1, <2>2 DEF Basis
<1>9. Bases' = [Bases EXCEPT ![x] = e]
  BY <1>7, <1>8 DEF Bases
<1>10. Values' = Values /\ Values[e] # Nil
  BY <1>1, <1>2 DEF Values
<1> QED
  BY <1>1, <1>6, <1>9, <1>10 DEF Register!Read, Values, Bases

\* The version a session has read may be named in a request.
LEMMA ReadingPresented ==
  ASSUME SessionInv, NEW x \in Sessions, read[x] # Nil
  PROVE  /\ read[x].ovn \in Presented(read[x].entity.id)
         /\ read[x].ovn # Nil
<1>1. Settled(read[x]) /\ read[x].ovn \in OVNs
  BY DEF SessionInv, Reading
<1>2. read[x].ovn # Nil
  BY <1>1, NilIsNoReading
<1> QED
  BY <1>1, <1>2 DEF Settled, Presented, Issued, Seen, CurrentOVNs, IdOf

\* The version that the session names is that of the row, so the session has
\* the value of the entity.
LEMMA UpdateSimulated ==
  ASSUME SessionInv, NEW x \in Sessions, NEW m \in Managers, NEW e \in Entities,
         Update(x, m, e)
  PROVE  Register!Update(x, e) /\ SessionInv'
<1> DEFINE ovn == read[x].ovn
<1>1. /\ read[x] # Nil /\ read[x].entity = e
      /\ Put(m, e, ovn)
      /\ writer' = x /\ UNCHANGED read
  BY DEF Update
<1>2. ovn \in Presented(e.id) /\ ovn # Nil
  BY <1>1, ReadingPresented
<1>3. Writes(e, ovn) /\ TypeOK'
  BY <1>1, <1>2, PutWrites DEF SessionInv
<1>4. /\ OnlyRow(e) /\ Retires /\ now' = now
      /\ Row(e) # Nil /\ ovn = CurrentOVN(e)
      /\ Row(e)' # Nil /\ CurrentOVN(e)' = OVN(e.id, now)
  BY <1>2, <1>3 DEF Writes
<1>5. Register!Changes(e)
  BY <1>1, <1>4, ChangeSimulated
<1>6. now <= now'
  BY <1>4 DEF SessionInv, TypeOK
<1>7. SessionInv'
  BY <1>1, <1>3, <1>4, <1>6, StaysSettled
<1>8. Basis(x) = e
  BY <1>1, <1>4 DEF Basis
<1>9. Bases[x] = e /\ Values'[e] # Nil
  BY <1>4, <1>8 DEF Bases, Values
<1> QED
  BY <1>1, <1>5, <1>7, <1>9 DEF Register!Update, Values, Bases

LEMMA NothingSimulated ==
  ASSUME UNCHANGED <<ops, constraints, read>>
  PROVE  UNCHANGED <<Values, Bases>>
<1>1. /\ \A e : Row(e)' = Row(e)
      /\ \A e : CurrentOVN(e)' = CurrentOVN(e)
  BY DEF Row, CurrentOVN
<1>2. \A x \in Sessions : Basis(x)' = Basis(x)
  BY <1>1 DEF Basis
<1> QED
  BY <1>1, <1>2 DEF Values, Bases

\* Whatever anyone requests, no session has it believe in a value that is no
\* more.
LEMMA OthersSimulated ==
  ASSUME SessionInv, Others
  PROVE  /\ Register!Pause \/ \E e \in Entities : Register!Interfere(e)
         /\ SessionInv'
<1>1. Next /\ writer' = Nil /\ UNCHANGED read
  BY DEF Others
<1>2. ASSUME NEW e \in Entities, OnlyRow(e), Retires, TypeOK', now' = now,
             Row(e)' = Nil \/ CurrentOVN(e)' = OVN(e.id, now)
      PROVE  Register!Interfere(e) /\ SessionInv'
  <2>1. Register!Changes(e)
    BY <1>1, <1>2, ChangeSimulated
  <2>2. now <= now'
    BY <1>2 DEF SessionInv, TypeOK
  <2>3. SessionInv'
    BY <1>1, <1>2, <2>2, StaysSettled
  <2> QED
    BY <1>1, <2>1, <2>3 DEF Register!Interfere
<1>3. CASE \E m \in Managers, e \in Entities : \E ovn \in Presented(e.id) : Put(m, e, ovn)
  <2>1. PICK m \in Managers, e \in Entities : \E ovn \in Presented(e.id) : Put(m, e, ovn)
    BY <1>3
  <2>2. PICK ovn \in Presented(e.id) : Put(m, e, ovn)
    BY <2>1
  <2>3. Writes(e, ovn) /\ TypeOK'
    BY <2>2, PutWrites DEF SessionInv
  <2> QED
    BY <1>2, <2>3 DEF Writes
<1>4. CASE \E m \in Managers, e \in Entities : Delete(m, e)
  <2>1. PICK m \in Managers, e \in Entities : Delete(m, e)
    BY <1>4
  <2>2. OnlyRow(e) /\ Retires /\ Row(e)' = Nil /\ now' = now /\ TypeOK'
    BY <2>1, DeleteRemoves DEF SessionInv
  <2> QED
    BY <1>2, <2>2
<1>5. CASE Tick \/ \E m \in Managers, s \in SubIds : SubscriptionRequest(m, s)
  <2>1. UNCHANGED <<ops, constraints>> /\ Retires /\ now <= now' /\ TypeOK'
    BY <1>5, OtherStep DEF SessionInv
  <2>2. UNCHANGED <<Values, Bases>>
    BY <1>1, <2>1, NothingSimulated
  <2>3. Register!Pause
    BY <1>1, <2>2 DEF Register!Pause, Values, Bases
  <2> QED
    BY <1>1, <2>1, <2>3, StaysSettled
<1> QED
  BY <1>1, <1>3, <1>4, <1>5, KindsOfStep

LEMMA SessionStep ==
  ASSUME SessionInv, [SessionNext]_svars
  PROVE  [Register!Next]_Register!rvars /\ SessionInv'
<1>1. ASSUME NEW x \in Sessions, NEW m \in Managers, NEW e \in Entities,
             Get(x, m, e) \/ Update(x, m, e)
      PROVE  Register!Next /\ SessionInv'
  BY <1>1, GetSimulated, UpdateSimulated DEF Register!Next
<1>2. CASE Others
  BY <1>2, OthersSimulated DEF Register!Next
<1>3. CASE UNCHANGED svars
  <2>1. UNCHANGED <<now, ops, subs, constraints, retired, proved, told, read, writer>>
    BY <1>3 DEF svars, vars
  <2>2. UNCHANGED <<Values, Bases, writer>>
    BY <2>1, NothingSimulated
  <2>3. SessionInv'
    BY <2>1 DEF SessionInv, TypeOK, Settled, Seen, EntityOVNs, OpOVN, ConstraintOVN
  <2> QED
    BY <2>2, <2>3 DEF Register!rvars, Values, Bases
<1> QED
  BY <1>1, <1>2, <1>3 DEF SessionNext

\* A session makes no request that SCD does not allow.
LEMMA SessionStepIsStep ==
  ASSUME SessionInv, [SessionNext]_svars
  PROVE  [Next]_vars
<1>1. ASSUME NEW x \in Sessions, NEW m \in Managers, NEW e \in Entities, Update(x, m, e)
      PROVE  Next
  <2> DEFINE ovn == read[x].ovn
  <2>1. read[x] # Nil /\ read[x].entity = e /\ Put(m, e, ovn)
    BY <1>1 DEF Update
  <2>2. ovn \in Presented(e.id)
    BY <2>1, ReadingPresented
  <2> HIDE DEF ovn
  <2>3. CASE e.kind = "op"
    <3>1. PutOperationalIntentReference(m, e.id, ovn) /\ e.id \in OpIds
      BY <2>1, <2>3, EntityFields DEF Put
    <3> QED
      BY <2>2, <3>1 DEF Next
  <2>4. CASE e.kind = "constraint"
    <3>1. ConstraintRequest(m, e.id) /\ e.id \in ConstraintIds
      BY <2>1, <2>2, <2>4, EntityFields DEF Put, ConstraintRequest
    <3> QED
      BY <3>1 DEF Next
  <2> QED
    BY <2>3, <2>4, EntityFields
<1>2. ASSUME NEW x \in Sessions, NEW m \in Managers, NEW e \in Entities, Get(x, m, e)
      PROVE  UNCHANGED vars
  BY <1>2 DEF Get
<1>3. Others => Next
  BY DEF Others
<1>4. CASE UNCHANGED svars
  BY <1>4 DEF svars
<1> QED
  BY <1>1, <1>2, <1>3, <1>4 DEF SessionNext

LEMMA SessionsStart == SessionInit => SessionInv
<1> SUFFICES ASSUME SessionInit PROVE SessionInv
  OBVIOUS
<1>1. TypeOK
  BY InitType DEF SessionInit
<1> QED
  BY <1>1 DEF SessionInit, SessionInv

\* The requests that sessions make of SCD are a behaviour of SCD, so what is
\* proved of Spec holds with sessions too.
THEOREM SessionsUseSCD == SessionSpec => Spec
<1>1. SessionInit => Init
  BY DEF SessionInit
<1>2. SessionInv /\ [SessionNext]_svars => [Next]_vars /\ SessionInv'
  BY SessionStepIsStep, SessionStep
<1> QED
  BY <1>1, <1>2, SessionsStart, PTL DEF SessionSpec, Spec

\* For a session that relies on settled readings only, operational intents and
\* constraints are compare-and-set registers, whatever others request and
\* however often in one second: the checks of the OVN in
\* PutOperationalIntentReference and PutConstraintReference let its update
\* through only if it has the value that it replaces.
THEOREM SessionsImplementReadModifyWrite == SessionSpec => ImplementsReadModifyWrite
<1>1. SessionInit => Register!Init
  BY DEF SessionInit, Init, Register!Init, Row, Basis, Entities
<1>2. SessionInv /\ [SessionNext]_svars => [Register!Next]_Register!rvars /\ SessionInv'
  BY SessionStep
<1> QED
  BY <1>1, <1>2, SessionsStart, PTL DEF SessionSpec, ImplementsReadModifyWrite, Register!RSpec

=============================================================================
