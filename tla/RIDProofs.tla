------------------------------ MODULE RIDProofs ------------------------------
(***************************************************************************)
(* Proofs about RID: what subscribers are told of ISAs, how many           *)
(* subscriptions an owner has, and what the collectors delete, for any     *)
(* number of owners, ISAs, subscriptions, cells and DSS instances.         *)
(***************************************************************************)
EXTENDS RID, FiniteSetTheorems, TLAPS

\* Every row has a version that was given out.
Versions ==
  /\ \A i \in ISAIds : isas[i] # Nil => isas[i].version <= stamp
  /\ \A s \in SubIds : subs[s] # Nil => subs[s].version <= stamp

\* What a collector may delete: the row it listed is still expired and of its
\* own locality if it is of the version listed.
MayDelete(table, ids, g) ==
  \A r \in gc[g].rows :
    /\ r[1] \in ids
    /\ r[2] <= stamp
    /\ Deletes(table, r) => Expired(table[r[1]]) /\ table[r[1]].writer = g

Listed(g) ==
  /\ gc[g].pc = "isas" => MayDelete(isas, ISAIds, g)
  /\ gc[g].pc = "subs" => MayDelete(subs, SubIds, g)

\* A subscriber holds no old version of an ISA for current, and none that has
\* left the cells of its subscription.
Told(s) ==
  Live(subs[s]) =>
    \A i \in ISAIds :
      /\ known[s][i] # "stale"
      /\ known[s][i] = "current" =>
           isas[i] # Nil /\ SharesCellId(isas[i].cells, subs[s].cells)

\* The inductive invariant.
IInv ==
  /\ TypeOK
  /\ Versions
  /\ \A g \in Servers : Listed(g)
  /\ \A s \in SubIds : Told(s)

-----------------------------------------------------------------------------
(* Lemmas on the operators *)

\* The cells whose subscriptions a write notifies are those that the ISA has
\* and those that it had.
LEMMA AffectedCellsCover ==
  ASSUME NEW old, old # Nil => old.cells \in SUBSET Cells, NEW cells \in SUBSET Cells,
         NEW x \in Cells, x \in cells \/ (old # Nil /\ x \in old.cells)
  PROVE  x \in AffectedCells(old, cells)
<1>1. x # ParentCell /\ ParentCell \notin SiblingCells  BY CellsAssumption
<1>2. CASE old = Nil  BY <1>2 DEF AffectedCells
<1>3. CASE old # Nil
  <2> DEFINE cu == old.cells \cup cells
  <2>1. x \in cu  OBVIOUS
  <2>2. AffectedCells(old, cells) = Area(Normalize(cu))
    BY <1>3 DEF AffectedCells, CellUnionFromUnion
  <2> HIDE DEF cu
  <2>3. CASE SiblingCells # {} /\ (SiblingCells \subseteq cu \/ ParentCell \in cu)
    <3>1. Normalize(cu) = (cu \ SiblingCells) \cup {ParentCell}  BY <2>3 DEF Normalize
    <3> QED  BY <1>1, <2>1, <2>2, <3>1 DEF Area
  <2>4. CASE ~(SiblingCells # {} /\ (SiblingCells \subseteq cu \/ ParentCell \in cu))
    <3>1. Normalize(cu) = cu  BY <2>4 DEF Normalize
    <3> QED  BY <1>1, <2>1, <2>2, <3>1 DEF Area
  <2> QED  BY <2>3, <2>4
<1> QED  BY <1>2, <1>3

\* So a subscription that shares a cell with either ISA is notified.
LEMMA AffectedAreNotified ==
  ASSUME TypeOK, NEW i \in ISAIds, NEW cells \in SUBSET Cells, NEW s \in SubIds, Live(subs[s]),
         SharesCellId(subs[s].cells, cells)
           \/ (isas[i] # Nil /\ SharesCellId(isas[i].cells, subs[s].cells))
  PROVE  s \in NotifiedIn(AffectedCells(isas[i], cells))
<1>1. subs[s].cells \in SUBSET Cells  BY DEF TypeOK, Live, Row
<1>2. isas[i] # Nil => isas[i].cells \in SUBSET Cells  BY DEF TypeOK, Row
<1>3. PICK x \in Cells : x \in subs[s].cells /\ (x \in cells \/ (isas[i] # Nil /\ x \in isas[i].cells))
  BY <1>1, <1>2 DEF SharesCellId
<1>4. x \in AffectedCells(isas[i], cells)  BY <1>2, <1>3, AffectedCellsCover
<1> QED  BY <1>3, <1>4 DEF NotifiedIn, SharesCellId

\* What is known once an ISA has changed.
LEMMA KnownAfterValue ==
  ASSUME known \in [SubIds -> [ISAIds -> Knowledge]],
         NEW i \in ISAIds, NEW N, NEW cells, known' = KnownAfter(i, N, cells)
  PROVE  /\ known' \in [SubIds -> [ISAIds -> Knowledge]]
         /\ \A s \in SubIds :
              /\ \A j \in ISAIds \ {i} : known'[s][j] = known[s][j]
              /\ known'[s][i] =
                   IF s \in N THEN IF SharesCellId(subs[s].cells, cells) THEN "current" ELSE "nothing"
                   ELSE IF known[s][i] = "nothing" THEN "nothing" ELSE "stale"
  BY DEF KnownAfter, Knowledge

\* A row written now is a row.
LEMMA NewRows ==
  ASSUME TypeOK, NEW o \in Owners, NEW e \in Extent, NEW g \in Servers,
         NEW old \in Row \cup {Nil}
  PROVE  /\ AdjustedISAEnd(e, old) # Nil => NewISA(o, e, old, g) \in Row
         /\ NewSub(o, e, old, g) \in Row
<1>1. now \in Int /\ stamp \in Nat /\ MaxSubscriptionDuration \in Int
  BY BoundsAssumption DEF TypeOK
<1>2. e.cells \in SUBSET Cells /\ e.start \in Int \cup {Nil} /\ e.end \in Int \cup {Nil}
  BY DEF Extent, OptInt
<1>3. old # Nil => old.start \in Int /\ old.end \in Int  BY DEF Row
<1>4. AdjustedStart(e, old) \in Int  BY <1>1, <1>2, <1>3 DEF AdjustedStart
<1>5. AdjustedISAEnd(e, old) \in Int \cup {Nil}  BY <1>2, <1>3 DEF AdjustedISAEnd
<1>6. AdjustedSubEnd(e, old) \in Int  BY <1>1, <1>4, <1>5 DEF AdjustedSubEnd
<1> QED  BY <1>1, <1>2, <1>4, <1>5, <1>6 DEF Row, NewISA, NewSub

\* A search returns rows that meet its condition, all of them if there are no
\* more than its limit.
LEMMA SearchFinds ==
  ASSUME NEW cells, NEW found \in SearchISAs(cells)
  PROVE  /\ \A i \in found : i \in ISAIds /\ Live(isas[i]) /\ SharesCellId(isas[i].cells, cells)
         /\ Cardinality(ISAIds) <= MaxResultLimit =>
              \A i \in ISAIds : Live(isas[i]) /\ SharesCellId(isas[i].cells, cells) => i \in found
<1> DEFINE M == {i \in ISAIds : Live(isas[i]) /\ SharesCellId(isas[i].cells, cells)}
<1>1. found \in Limited(M)  BY DEF SearchISAs
<1>2. found \subseteq M  BY <1>1 DEF Limited
<1>3. ASSUME Cardinality(ISAIds) <= MaxResultLimit  PROVE found = M
  <2>1. Cardinality(M) <= Cardinality(ISAIds) /\ Cardinality(M) \in Nat /\ Cardinality(ISAIds) \in Nat
    BY IdsAssumption, FS_Subset, FS_CardinalityType
  <2>2. MaxResultLimit \in Nat  BY BoundsAssumption
  <2>3. Cardinality(M) <= MaxResultLimit  BY <1>3, <2>1, <2>2
  <2> QED  BY <1>1, <2>3 DEF Limited
<1> QED  BY <1>2, <1>3

\* What a collector lists is what it may delete.
LEMMA ListsExpired ==
  ASSUME NEW ids, NEW table, NEW g,
         \A q \in ids : table[q] # Nil => table[q].version \in Nat /\ table[q].version <= stamp,
         NEW r \in ListExpired(ids, table, g)
  PROVE  /\ r[1] \in ids /\ r[2] \in Nat /\ r[2] <= stamp
         /\ r \in ids \X Nat
         /\ Expired(table[r[1]]) /\ table[r[1]].writer = g
<1>1. PICK q \in ids : r = <<q, table[q].version>> /\ Expired(table[q]) /\ table[q].writer = g
  BY DEF ListExpired
<1>2. table[q] # Nil  BY <1>1 DEF Expired
<1> QED  BY <1>1, <1>2

LEMMA LimitedSubset ==
  ASSUME NEW M, NEW S \in Limited(M)
  PROVE  S \subseteq M
  BY DEF Limited

-----------------------------------------------------------------------------
(* The steps *)

\* How the rows of the tables change: not at all, by a deletion, to a newer version.
RowsMove ==
  /\ \A i \in ISAIds : isas'[i] = isas[i] \/ isas'[i] = Nil \/ isas'[i].version = stamp + 1
  /\ \A s \in SubIds : subs'[s] = subs[s] \/ subs'[s] = Nil \/ subs'[s].version = stamp + 1

\* A collector at rest is not disturbed by others.
LEMMA ListedKept ==
  ASSUME IInv, NEW g \in Servers, gc'[g] = gc[g], now' \in Nat, now <= now',
         stamp' \in Nat, stamp <= stamp', RowsMove
  PROVE  Listed(g)'
<1>1. Listed(g) /\ stamp \in Nat /\ now \in Nat /\ ExpiredDuration \in Nat
  BY BoundsAssumption DEF IInv, TypeOK
<1>2. gc[g].rows \subseteq (ISAIds \cup SubIds) \X Nat  BY DEF IInv, TypeOK
<1>3. ASSUME gc[g].pc = "isas", NEW r \in gc[g].rows
      PROVE  /\ r[1] \in ISAIds /\ r[2] <= stamp'
             /\ Deletes(isas, r)' => Expired(isas[r[1]])' /\ isas'[r[1]].writer = g
  <2>1. /\ r[1] \in ISAIds /\ r[2] <= stamp /\ r[2] \in Nat
        /\ Deletes(isas, r) => Expired(isas[r[1]]) /\ isas[r[1]].writer = g
    BY <1>1, <1>2, <1>3 DEF Listed, MayDelete
  <2>2. ASSUME Deletes(isas, r)'  PROVE Expired(isas[r[1]])' /\ isas'[r[1]].writer = g
    <3>1. isas'[r[1]] # Nil /\ isas'[r[1]].version = r[2]  BY <2>2 DEF Deletes
    <3>2. isas'[r[1]] = isas[r[1]]  BY <1>1, <2>1, <3>1 DEF RowsMove
    <3>3. Expired(isas[r[1]]) /\ isas[r[1]].writer = g  BY <2>1, <3>1, <3>2 DEF Deletes
    <3>4. isas[r[1]].end \in Int  BY <2>1, <3>1, <3>2 DEF IInv, TypeOK, Row
    <3> QED  BY <1>1, <3>2, <3>3, <3>4 DEF Expired
  <2> QED  BY <1>1, <2>1, <2>2
<1>4. ASSUME gc[g].pc = "subs", NEW r \in gc[g].rows
      PROVE  /\ r[1] \in SubIds /\ r[2] <= stamp'
             /\ Deletes(subs, r)' => Expired(subs[r[1]])' /\ subs'[r[1]].writer = g
  <2>1. /\ r[1] \in SubIds /\ r[2] <= stamp /\ r[2] \in Nat
        /\ Deletes(subs, r) => Expired(subs[r[1]]) /\ subs[r[1]].writer = g
    BY <1>1, <1>2, <1>4 DEF Listed, MayDelete
  <2>2. ASSUME Deletes(subs, r)'  PROVE Expired(subs[r[1]])' /\ subs'[r[1]].writer = g
    <3>1. subs'[r[1]] # Nil /\ subs'[r[1]].version = r[2]  BY <2>2 DEF Deletes
    <3>2. subs'[r[1]] = subs[r[1]]  BY <1>1, <2>1, <3>1 DEF RowsMove
    <3>3. Expired(subs[r[1]]) /\ subs[r[1]].writer = g  BY <2>1, <3>1, <3>2 DEF Deletes
    <3>4. subs[r[1]].end \in Int  BY <2>1, <3>1, <3>2 DEF IInv, TypeOK, Row
    <3> QED  BY <1>1, <3>2, <3>3, <3>4 DEF Expired
  <2> QED  BY <1>1, <2>1, <2>2
<1> QED  BY <1>3, <1>4 DEF Listed, MayDelete

\* An ISA is inserted, updated or deleted.
LEMMA ISAWritten ==
  ASSUME IInv, NEW i \in ISAIds, NEW row \in Row \cup {Nil}, NEW cells \in SUBSET Cells,
         MayWrite, isas' = [isas EXCEPT ![i] = row], stamp' = stamp + 1,
         row # Nil => row.version = stamp + 1 /\ row.cells = cells,
         row = Nil => cells = {},
         NEW N, known' = KnownAfter(i, N, cells),
         \A s \in SubIds : Live(subs[s]) /\ (SharesCellId(subs[s].cells, cells)
             \/ (isas[i] # Nil /\ SharesCellId(isas[i].cells, subs[s].cells))) => s \in N,
         UNCHANGED <<now, subs, gc, crashes, answered>>
  PROVE  IInv'
<1>1. stamp \in Nat /\ stamp' \in 0..MaxWrites /\ MaxWrites \in Nat /\ now \in Nat
  BY BoundsAssumption DEF IInv, TypeOK, MayWrite
<1>2. /\ known' \in [SubIds -> [ISAIds -> Knowledge]]
      /\ \A s \in SubIds :
           /\ \A j \in ISAIds \ {i} : known'[s][j] = known[s][j]
           /\ known'[s][i] =
                IF s \in N THEN IF SharesCellId(subs[s].cells, cells) THEN "current" ELSE "nothing"
                ELSE IF known[s][i] = "nothing" THEN "nothing" ELSE "stale"
  BY KnownAfterValue DEF IInv, TypeOK
<1>3. isas'[i] = row /\ \A j \in ISAIds \ {i} : isas'[j] = isas[j]  BY DEF IInv, TypeOK
<1>4. TypeOK'  BY <1>1, <1>2 DEF IInv, TypeOK
<1>5. Versions'
  <2>1. \A j \in ISAIds : isas[j] # Nil => isas[j].version \in Nat /\ isas[j].version <= stamp
    BY DEF IInv, TypeOK, Row, Versions
  <2>2. \A s \in SubIds : subs[s] # Nil => subs[s].version \in Nat /\ subs[s].version <= stamp
    BY DEF IInv, TypeOK, Row, Versions
  <2>3. \A j \in ISAIds : isas'[j] # Nil => isas'[j].version <= stamp'
    BY <1>1, <1>3, <2>1
  <2> QED  BY <1>1, <2>2, <2>3 DEF Versions
<1>6. RowsMove  BY <1>3 DEF RowsMove
<1>7. \A g \in Servers : Listed(g)'  BY <1>1, <1>6, ListedKept
<1>8. ASSUME NEW s \in SubIds  PROVE Told(s)'
  <2> SUFFICES ASSUME Live(subs[s]), NEW j \in ISAIds
               PROVE  /\ known'[s][j] # "stale"
                      /\ known'[s][j] = "current" =>
                           isas'[j] # Nil /\ SharesCellId(isas'[j].cells, subs[s].cells)
    BY DEF Told, Live
  <2>1. /\ known[s][j] # "stale"
        /\ known[s][j] = "current" => isas[j] # Nil /\ SharesCellId(isas[j].cells, subs[s].cells)
    BY DEF IInv, Told
  <2>2. CASE j # i  BY <1>2, <1>3, <2>1, <2>2
  <2>3. CASE j = i /\ s \in N
    <3>1. known'[s][j] = IF SharesCellId(subs[s].cells, cells) THEN "current" ELSE "nothing"
      BY <1>2, <2>3
    <3>2. SharesCellId(subs[s].cells, cells) => row # Nil /\ SharesCellId(row.cells, subs[s].cells)
      BY DEF SharesCellId
    <3> QED  BY <1>3, <2>3, <3>1, <3>2
  <2>4. CASE j = i /\ s \notin N
    <3>1. known[s][j] = "nothing"
      BY <2>1, <2>4 DEF IInv, TypeOK, Knowledge
    <3> QED  BY <1>2, <2>4, <3>1
  <2> QED  BY <2>2, <2>3, <2>4
<1> QED  BY <1>4, <1>5, <1>7, <1>8 DEF IInv

LEMMA InvPutISA ==
  ASSUME IInv, NEW o \in Owners, NEW i \in ISAIds, NEW e \in ISAExtents, NEW g \in Servers,
         PutISA(o, i, e, g)
  PROVE  IInv'
<1> DEFINE row == NewISA(o, e, isas[i], g)
           N == NotifiedIn(AffectedCells(isas[i], e.cells))
<1>1. e \in Extent /\ e.cells \in SUBSET Cells  BY ExtentsAssumption DEF Extent
<1>2. AdjustedISAEnd(e, isas[i]) # Nil  BY DEF PutISA, ValidTimeRange
<1>3. isas[i] \in Row \cup {Nil}  BY DEF IInv, TypeOK
<1>4. row \in Row  BY <1>1, <1>2, <1>3, NewRows DEF IInv
<1>5. row.version = stamp + 1 /\ row.cells = e.cells  BY DEF NewISA
<1>6. row # Nil  BY <1>4, NilIsNoRow
<1>7. \A s \in SubIds : Live(subs[s]) /\ (SharesCellId(subs[s].cells, e.cells)
             \/ (isas[i] # Nil /\ SharesCellId(isas[i].cells, subs[s].cells))) => s \in N
  BY <1>1, AffectedAreNotified DEF IInv
<1>8. /\ MayWrite /\ isas' = [isas EXCEPT ![i] = row] /\ stamp' = stamp + 1
      /\ known' = KnownAfter(i, N, e.cells)
      /\ UNCHANGED <<now, subs, gc, crashes, answered>>
  BY DEF PutISA
<1> HIDE DEF row, N
<1> QED  BY <1>1, <1>4, <1>5, <1>6, <1>7, <1>8, ISAWritten

LEMMA InvDeleteISA ==
  ASSUME IInv, NEW o \in Owners, NEW i \in ISAIds, DeleteISA(o, i)
  PROVE  IInv'
<1> DEFINE N == NotifiedIn(isas[i].cells)
<1>1. \A s \in SubIds : Live(subs[s]) /\ (SharesCellId(subs[s].cells, {})
             \/ (isas[i] # Nil /\ SharesCellId(isas[i].cells, subs[s].cells))) => s \in N
  BY DEF NotifiedIn, SharesCellId
<1>2. /\ MayWrite /\ isas' = [isas EXCEPT ![i] = Nil] /\ stamp' = stamp + 1
      /\ known' = KnownAfter(i, N, {})
      /\ UNCHANGED <<now, subs, gc, crashes, answered>>
  BY DEF DeleteISA
<1> HIDE DEF N
<1>3. Nil \in Row \cup {Nil} /\ {} \in SUBSET Cells  OBVIOUS
<1> DEFINE row == Nil
<1>4. row \in Row \cup {Nil} /\ (row # Nil => row.version = stamp + 1 /\ row.cells = {})  OBVIOUS
<1> QED  BY <1>1, <1>2, <1>3, <1>4, ISAWritten

\* A subscription is written, deleted or collected: its subscriber knows nothing yet.
LEMMA SubReplaced ==
  ASSUME IInv, TypeOK', NEW s \in SubIds, NEW row \in Row \cup {Nil},
         subs' = [subs EXCEPT ![s] = row], known' = [known EXCEPT ![s] = KnowsNothing],
         row # Nil => row.version = stamp + 1 /\ stamp' = stamp + 1,
         stamp <= stamp', UNCHANGED <<now, isas>>
  PROVE  /\ Versions'
         /\ \A r \in SubIds : Told(r)'
         /\ RowsMove
<1>1. subs'[s] = row /\ \A r \in SubIds \ {s} : subs'[r] = subs[r]  BY DEF IInv, TypeOK
<1>2. known'[s] = KnowsNothing /\ \A r \in SubIds \ {s} : known'[r] = known[r]
  BY DEF IInv, TypeOK
<1>3. RowsMove  BY <1>1 DEF RowsMove
<1>4. stamp \in Nat /\ stamp' \in Nat  BY BoundsAssumption DEF IInv, TypeOK
<1>5. Versions'
  <2>1. \A j \in ISAIds : isas[j] # Nil => isas[j].version \in Nat /\ isas[j].version <= stamp
    BY DEF IInv, TypeOK, Row, Versions
  <2>2. \A r \in SubIds : subs[r] # Nil => subs[r].version \in Nat /\ subs[r].version <= stamp
    BY DEF IInv, TypeOK, Row, Versions
  <2>3. \A r \in SubIds : subs'[r] # Nil => subs'[r].version <= stamp'
    BY <1>1, <1>4, <2>2
  <2> QED  BY <1>4, <2>1, <2>3 DEF Versions
<1>6. ASSUME NEW r \in SubIds  PROVE Told(r)'
  <2>1. CASE r = s  BY <1>2, <2>1 DEF Told, KnowsNothing
  <2>2. CASE r # s  BY <1>1, <1>2, <2>2 DEF IInv, Told, Live
  <2> QED  BY <2>1, <2>2
<1> QED  BY <1>3, <1>5, <1>6

LEMMA InvPutSubscription ==
  ASSUME IInv, NEW o \in Owners, NEW s \in SubIds, NEW e \in SubExtents, NEW g \in Servers,
         PutSubscription(o, s, e, g)
  PROVE  IInv'
<1> DEFINE row == NewSub(o, e, subs[s], g)
<1>1. e \in Extent  BY ExtentsAssumption
<1>2. row \in Row  BY <1>1, NewRows DEF IInv, TypeOK
<1>3. row.version = stamp + 1  BY DEF NewSub
<1>4. /\ MayWrite /\ subs' = [subs EXCEPT ![s] = row] /\ answered' = answered \ {s}
      /\ known' = [known EXCEPT ![s] = KnowsNothing] /\ stamp' = stamp + 1
      /\ UNCHANGED <<now, isas, gc, crashes>>
  BY DEF PutSubscription
<1> HIDE DEF row
<1>5. stamp \in Nat /\ stamp' \in 0..MaxWrites /\ now \in Nat
  BY <1>4, BoundsAssumption DEF IInv, TypeOK, MayWrite
<1>6. KnowsNothing \in [ISAIds -> Knowledge]  BY DEF KnowsNothing, Knowledge
<1>7. TypeOK'  BY <1>2, <1>4, <1>5, <1>6 DEF IInv, TypeOK
<1>8. stamp <= stamp' /\ stamp' \in Nat  BY <1>4, <1>5
<1>9. Versions' /\ (\A r \in SubIds : Told(r)') /\ RowsMove
  BY <1>2, <1>3, <1>4, <1>7, <1>8, SubReplaced
<1>10. \A h \in Servers : Listed(h)'  BY <1>4, <1>5, <1>8, <1>9, ListedKept
<1> QED  BY <1>7, <1>9, <1>10 DEF IInv

LEMMA InvDeleteSubscription ==
  ASSUME IInv, NEW o \in Owners, NEW s \in SubIds, DeleteSubscription(o, s)
  PROVE  IInv'
<1> DEFINE row == Nil
<1>1. row \in Row \cup {Nil} /\ (row # Nil => row.version = stamp + 1 /\ stamp' = stamp + 1)  OBVIOUS
<1>2. /\ MayWrite /\ subs' = [subs EXCEPT ![s] = row] /\ answered' = answered \ {s}
      /\ known' = [known EXCEPT ![s] = KnowsNothing] /\ stamp' = stamp + 1
      /\ UNCHANGED <<now, isas, gc, crashes>>
  BY DEF DeleteSubscription
<1> HIDE DEF row
<1>3. stamp \in Nat /\ stamp' \in 0..MaxWrites /\ now \in Nat
  BY <1>2, BoundsAssumption DEF IInv, TypeOK, MayWrite
<1>4. KnowsNothing \in [ISAIds -> Knowledge]  BY DEF KnowsNothing, Knowledge
<1>5. TypeOK'  BY <1>1, <1>2, <1>3, <1>4 DEF IInv, TypeOK
<1>6. stamp <= stamp' /\ stamp' \in Nat  BY <1>2, <1>3
<1>7. Versions' /\ (\A r \in SubIds : Told(r)') /\ RowsMove
  BY <1>1, <1>2, <1>5, <1>6, SubReplaced
<1>8. \A h \in Servers : Listed(h)'  BY <1>2, <1>3, <1>6, <1>7, ListedKept
<1> QED  BY <1>5, <1>7, <1>8 DEF IInv

LEMMA InvAnswerSubscription ==
  ASSUME IInv, NEW s \in SubIds, AnswerSubscription(s)
  PROVE  IInv'
<1>1. PICK found \in SearchISAs(subs[s].cells) :
        known' = [known EXCEPT ![s] = [i \in ISAIds |-> IF i \in found THEN "current" ELSE @[i]]]
  BY DEF AnswerSubscription
<1>2. /\ answered' = answered \cup {s}
      /\ UNCHANGED <<now, isas, subs, gc, stamp, crashes>>
  BY DEF AnswerSubscription
<1>3. \A i \in found : i \in ISAIds /\ Live(isas[i]) /\ SharesCellId(isas[i].cells, subs[s].cells)
  BY SearchFinds
<1>4. known[s] \in [ISAIds -> Knowledge]  BY DEF IInv, TypeOK
<1>5. /\ known'[s] = [i \in ISAIds |-> IF i \in found THEN "current" ELSE known[s][i]]
      /\ \A r \in SubIds \ {s} : known'[r] = known[r]
      /\ known' \in [SubIds -> [ISAIds -> Knowledge]]
  BY <1>1, <1>4 DEF IInv, TypeOK, Knowledge
<1>6. TypeOK'  BY <1>2, <1>5 DEF IInv, TypeOK
<1>7. Versions'  BY <1>2 DEF IInv, Versions
<1>8. now \in Nat /\ stamp \in Nat  BY BoundsAssumption DEF IInv, TypeOK
<1>9. RowsMove  BY <1>2 DEF RowsMove
<1>10. \A g \in Servers : Listed(g)'  BY <1>2, <1>8, <1>9, ListedKept
<1>11. ASSUME NEW r \in SubIds  PROVE Told(r)'
  <2>1. CASE r = s
    <3> SUFFICES ASSUME Live(subs[s]), NEW i \in ISAIds
                 PROVE  /\ known'[s][i] # "stale"
                        /\ known'[s][i] = "current" =>
                             isas[i] # Nil /\ SharesCellId(isas[i].cells, subs[s].cells)
      BY <1>2, <2>1 DEF Told, Live
    <3>1. CASE i \in found  BY <1>3, <1>5, <3>1 DEF Live
    <3>2. CASE i \notin found  BY <1>5, <3>2 DEF IInv, Told
    <3> QED  BY <3>1, <3>2
  <2>2. CASE r # s  BY <1>2, <1>5, <2>2 DEF IInv, Told, Live
  <2> QED  BY <2>1, <2>2
<1> QED  BY <1>6, <1>7, <1>10, <1>11 DEF IInv

\* A step of collector g that leaves the tables alone.
LEMMA InvList ==
  ASSUME IInv, NEW g \in Servers, NEW c \in [pc : Phases, rows : SUBSET ((ISAIds \cup SubIds) \X Nat)],
         gc' = [gc EXCEPT ![g] = c],
         c.pc = "isas" => \A r \in c.rows :
           r[1] \in ISAIds /\ r[2] <= stamp /\ (Deletes(isas, r) => Expired(isas[r[1]]) /\ isas[r[1]].writer = g),
         c.pc = "subs" => \A r \in c.rows :
           r[1] \in SubIds /\ r[2] <= stamp /\ (Deletes(subs, r) => Expired(subs[r[1]]) /\ subs[r[1]].writer = g),
         crashes' \in 0..MaxCrashes,
         UNCHANGED <<now, isas, subs, stamp, answered, known>>
  PROVE  IInv'
<1>1. gc'[g] = c /\ \A h \in Servers \ {g} : gc'[h] = gc[h]  BY DEF IInv, TypeOK
<1>2. TypeOK'  BY DEF IInv, TypeOK
<1>3. Versions'  BY DEF IInv, Versions
<1>4. \A s \in SubIds : Told(s)'  BY DEF IInv, Told, Live
<1>5. ASSUME NEW h \in Servers  PROVE Listed(h)'
  <2>1. CASE h = g  BY <1>1, <2>1 DEF Listed, MayDelete, Deletes, Expired
  <2>2. CASE h # g
    <3>1. now \in Nat /\ stamp \in Nat  BY BoundsAssumption DEF IInv, TypeOK
    <3>2. RowsMove  BY DEF RowsMove
    <3> QED  BY <1>1, <2>2, <3>1, <3>2, ListedKept
  <2> QED  BY <2>1, <2>2
<1> QED  BY <1>2, <1>3, <1>4, <1>5 DEF IInv

LEMMA InvListing ==
  ASSUME IInv, NEW g \in Servers,
         \/ ListExpiredISAs(g) \/ ListExpiredSubscriptions(g) \/ EndCollection(g) \/ Crash(g)
  PROVE  IInv'
<1>1. Idle \in [pc : Phases, rows : SUBSET ((ISAIds \cup SubIds) \X Nat)] /\ Idle.pc = "idle"
  BY DEF Idle, Phases
<1>2. crashes \in 0..MaxCrashes /\ MaxCrashes \in Nat  BY BoundsAssumption DEF IInv, TypeOK
<1>3. CASE ListExpiredISAs(g)
  <2>1. PICK rows \in Limited(ListExpired(ISAIds, isas, g)) :
          gc' = [gc EXCEPT ![g] = [pc |-> "isas", rows |-> rows]]
    BY <1>3 DEF ListExpiredISAs
  <2>2. \A i \in ISAIds : isas[i] # Nil => isas[i].version \in Nat /\ isas[i].version <= stamp
    BY DEF IInv, TypeOK, Row, Versions
  <2>3. \A r \in rows : /\ r[1] \in ISAIds /\ r[2] <= stamp /\ r \in ISAIds \X Nat
                        /\ Expired(isas[r[1]]) /\ isas[r[1]].writer = g
    BY <2>2, ListsExpired, LimitedSubset
  <2> DEFINE c == [pc |-> "isas", rows |-> rows]
  <2>4. c \in [pc : Phases, rows : SUBSET ((ISAIds \cup SubIds) \X Nat)]  BY <2>3 DEF Phases
  <2>5. c.pc = "isas" /\ c.rows = rows  OBVIOUS
  <2>6. gc' = [gc EXCEPT ![g] = c] /\ UNCHANGED <<now, isas, subs, stamp, crashes, answered, known>>
    BY <1>3, <2>1 DEF ListExpiredISAs
  <2> HIDE DEF c
  <2> QED  BY <1>2, <2>3, <2>4, <2>5, <2>6, InvList
<1>4. CASE ListExpiredSubscriptions(g)
  <2> DEFINE rows == ListExpired(SubIds, subs, g)
             c == [pc |-> "subs", rows |-> rows]
  <2>1. \A s \in SubIds : subs[s] # Nil => subs[s].version \in Nat /\ subs[s].version <= stamp
    BY DEF IInv, TypeOK, Row, Versions
  <2>2. \A r \in rows : /\ r[1] \in SubIds /\ r[2] <= stamp /\ r \in SubIds \X Nat
                        /\ Expired(subs[r[1]]) /\ subs[r[1]].writer = g
    BY <2>1, ListsExpired
  <2>3. c \in [pc : Phases, rows : SUBSET ((ISAIds \cup SubIds) \X Nat)]  BY <2>2 DEF Phases
  <2>4. c.pc = "subs" /\ c.rows = rows  OBVIOUS
  <2>5. gc' = [gc EXCEPT ![g] = c] /\ UNCHANGED <<now, isas, subs, stamp, crashes, answered, known>>
    BY <1>4 DEF ListExpiredSubscriptions
  <2> HIDE DEF c, rows
  <2> QED  BY <1>2, <2>2, <2>3, <2>4, <2>5, InvList
<1>5. CASE EndCollection(g)  BY <1>1, <1>2, <1>5, InvList DEF EndCollection
<1>6. CASE Crash(g)
  <2>1. crashes' \in 0..MaxCrashes  BY <1>2, <1>6 DEF Crash
  <2> QED  BY <1>1, <1>6, <2>1, InvList DEF Crash
<1> QED  BY <1>3, <1>4, <1>5, <1>6

LEMMA InvCollectISA ==
  ASSUME IInv, NEW g \in Servers, CollectISA(g)
  PROVE  IInv'
<1>1. PICK r \in gc[g].rows :
        IF Deletes(isas, r)
        THEN /\ isas' = [isas EXCEPT ![r[1]] = Nil]
             /\ known' = [s \in SubIds |-> [known[s] EXCEPT ![r[1]] =
                  IF @ = "current" /\ Live(isas[r[1]]) THEN "stale" ELSE "nothing"]]
             /\ gc' = [gc EXCEPT ![g] = [pc |-> "list", rows |-> {}]]
        ELSE gc' = [gc EXCEPT ![g].rows = @ \ {r}] /\ UNCHANGED <<isas, known>>
  BY DEF CollectISA
<1>2. UNCHANGED <<now, subs, stamp, crashes, answered>> /\ gc[g].pc = "isas"  BY DEF CollectISA
<1>3. /\ gc[g] \in [pc : Phases, rows : SUBSET ((ISAIds \cup SubIds) \X Nat)]
      /\ \A q \in gc[g].rows :
           r[1] \in ISAIds /\ q[1] \in ISAIds /\ q[2] <= stamp
             /\ (Deletes(isas, q) => Expired(isas[q[1]]) /\ isas[q[1]].writer = g)
  BY <1>2 DEF IInv, TypeOK, Listed, MayDelete
<1>4. CASE ~Deletes(isas, r)
  <2> DEFINE c == [pc |-> "isas", rows |-> gc[g].rows \ {r}]
  <2>1. gc' = [gc EXCEPT ![g] = c]  BY <1>1, <1>2, <1>3, <1>4 DEF IInv, TypeOK
  <2>2. /\ c \in [pc : Phases, rows : SUBSET ((ISAIds \cup SubIds) \X Nat)]
        /\ c.pc = "isas" /\ c.rows \subseteq gc[g].rows
    BY <1>3 DEF Phases
  <2>3. crashes' \in 0..MaxCrashes /\ UNCHANGED <<now, isas, subs, stamp, answered, known>>
    BY <1>1, <1>2, <1>4 DEF IInv, TypeOK
  <2> HIDE DEF c
  <2> QED  BY <1>3, <2>1, <2>2, <2>3, InvList
<1>5. CASE Deletes(isas, r)
  <2> DEFINE i == r[1]
             c == [pc |-> "list", rows |-> {}]
  <2>1. i \in ISAIds /\ Expired(isas[i]) /\ isas[i] # Nil  BY <1>3, <1>5 DEF Deletes
  <2>2. isas' = [isas EXCEPT ![i] = Nil] /\ gc' = [gc EXCEPT ![g] = c]  BY <1>1, <1>5
  <2>3. ~Live(isas[i])
    <3>1. isas[i].end \in Int /\ now \in Int /\ ExpiredDuration \in Nat \ {0}
      BY <2>1, BoundsAssumption DEF IInv, TypeOK, Row
    <3> QED  BY <2>1, <3>1 DEF Expired, Live
  <2>4. known' = [s \in SubIds |-> [known[s] EXCEPT ![i] = "nothing"]]  BY <1>1, <1>5, <2>3
  <2> HIDE DEF i
  <2>5. /\ known' \in [SubIds -> [ISAIds -> Knowledge]]
        /\ \A s \in SubIds : known'[s][i] = "nothing" /\ \A j \in ISAIds \ {i} : known'[s][j] = known[s][j]
    BY <2>1, <2>4 DEF IInv, TypeOK, Knowledge
  <2>6. isas'[i] = Nil /\ \A j \in ISAIds \ {i} : isas'[j] = isas[j]
    BY <2>1, <2>2 DEF IInv, TypeOK
  <2>7. c \in [pc : Phases, rows : SUBSET ((ISAIds \cup SubIds) \X Nat)] /\ c.pc = "list"
    BY DEF Phases
  <2>8. gc'[g] = c /\ \A h \in Servers \ {g} : gc'[h] = gc[h]  BY <2>2 DEF IInv, TypeOK
  <2>9. TypeOK'  BY <1>2, <2>2, <2>5, <2>7 DEF IInv, TypeOK
  <2>10. Versions'  BY <1>2, <2>6 DEF IInv, Versions
  <2>11. RowsMove  BY <1>2, <2>6 DEF RowsMove
  <2>12. now \in Nat /\ stamp \in Nat  BY BoundsAssumption DEF IInv, TypeOK
  <2>13. ASSUME NEW h \in Servers  PROVE Listed(h)'
    <3>1. CASE h = g  BY <2>7, <2>8, <3>1 DEF Listed
    <3>2. CASE h # g  BY <1>2, <2>8, <2>11, <2>12, <3>2, ListedKept
    <3> QED  BY <3>1, <3>2
  <2>14. ASSUME NEW s \in SubIds  PROVE Told(s)'
    BY <1>2, <2>1, <2>5, <2>6 DEF IInv, Told, Live
  <2> QED  BY <2>9, <2>10, <2>13, <2>14 DEF IInv
<1> QED  BY <1>4, <1>5

LEMMA InvCollectSubscription ==
  ASSUME IInv, NEW g \in Servers, CollectSubscription(g)
  PROVE  IInv'
<1>1. PICK r \in gc[g].rows :
        IF Deletes(subs, r)
        THEN /\ subs' = [subs EXCEPT ![r[1]] = Nil]
             /\ answered' = answered \ {r[1]}
             /\ known' = [known EXCEPT ![r[1]] = KnowsNothing]
             /\ gc' = [gc EXCEPT ![g] = Idle]
        ELSE gc' = [gc EXCEPT ![g].rows = @ \ {r}] /\ UNCHANGED <<subs, answered, known>>
  BY DEF CollectSubscription
<1>2. UNCHANGED <<now, isas, stamp, crashes>> /\ gc[g].pc = "subs"  BY DEF CollectSubscription
<1>3. /\ gc[g] \in [pc : Phases, rows : SUBSET ((ISAIds \cup SubIds) \X Nat)]
      /\ \A q \in gc[g].rows :
           r[1] \in SubIds /\ q[1] \in SubIds /\ q[2] <= stamp
             /\ (Deletes(subs, q) => Expired(subs[q[1]]) /\ subs[q[1]].writer = g)
  BY <1>2 DEF IInv, TypeOK, Listed, MayDelete
<1>4. CASE ~Deletes(subs, r)
  <2> DEFINE c == [pc |-> "subs", rows |-> gc[g].rows \ {r}]
  <2>1. gc' = [gc EXCEPT ![g] = c]  BY <1>1, <1>2, <1>3, <1>4 DEF IInv, TypeOK
  <2>2. /\ c \in [pc : Phases, rows : SUBSET ((ISAIds \cup SubIds) \X Nat)]
        /\ c.pc = "subs" /\ c.rows \subseteq gc[g].rows
    BY <1>3 DEF Phases
  <2>3. crashes' \in 0..MaxCrashes /\ UNCHANGED <<now, isas, subs, stamp, answered, known>>
    BY <1>1, <1>2, <1>4 DEF IInv, TypeOK
  <2> HIDE DEF c
  <2> QED  BY <1>3, <2>1, <2>2, <2>3, InvList
<1>5. CASE Deletes(subs, r)
  <2> DEFINE s == r[1]
             row == Nil
  <2>1. s \in SubIds  BY <1>3
  <2>2. /\ subs' = [subs EXCEPT ![s] = row] /\ answered' = answered \ {s}
        /\ known' = [known EXCEPT ![s] = KnowsNothing] /\ gc' = [gc EXCEPT ![g] = Idle]
    BY <1>1, <1>5
  <2>3. row \in Row \cup {Nil} /\ (row # Nil => row.version = stamp + 1 /\ stamp' = stamp + 1)
    OBVIOUS
  <2> HIDE DEF s, row
  <2>4. Idle \in [pc : Phases, rows : SUBSET ((ISAIds \cup SubIds) \X Nat)] /\ Idle.pc = "idle"
    BY DEF Idle, Phases
  <2>5. KnowsNothing \in [ISAIds -> Knowledge]  BY DEF KnowsNothing, Knowledge
  <2>6. TypeOK'  BY <1>2, <2>2, <2>3, <2>4, <2>5 DEF IInv, TypeOK
  <2>7. now \in Nat /\ stamp \in Nat /\ stamp <= stamp' /\ stamp' \in Nat
    BY <1>2, BoundsAssumption DEF IInv, TypeOK
  <2>8. Versions' /\ (\A t \in SubIds : Told(t)') /\ RowsMove
    BY <1>2, <2>1, <2>2, <2>3, <2>6, <2>7, SubReplaced
  <2>9. gc'[g] = Idle /\ \A h \in Servers \ {g} : gc'[h] = gc[h]  BY <2>2 DEF IInv, TypeOK
  <2>10. ASSUME NEW h \in Servers  PROVE Listed(h)'
    <3>1. CASE h = g  BY <2>4, <2>9, <3>1 DEF Listed
    <3>2. CASE h # g  BY <1>2, <2>7, <2>8, <2>9, <3>2, ListedKept
    <3> QED  BY <3>1, <3>2
  <2> QED  BY <2>6, <2>8, <2>10 DEF IInv
<1> QED  BY <1>4, <1>5

LEMMA InvTick ==
  ASSUME IInv, Tick
  PROVE  IInv'
<1>1. /\ UNCHANGED <<isas, subs, gc, stamp, crashes, answered, known>>
      /\ now \in 0..MaxTime /\ MaxTime \in Nat /\ stamp \in Nat
      /\ now' = now + 1 /\ now < MaxTime
  BY BoundsAssumption DEF Tick, IInv, TypeOK
<1>2. TypeOK'  BY <1>1 DEF IInv, TypeOK
<1>3. Versions'  BY <1>1 DEF IInv, Versions
<1>4. RowsMove  BY <1>1 DEF RowsMove
<1>5. \A g \in Servers : Listed(g)'  BY <1>1, <1>4, ListedKept
<1>6. ASSUME NEW s \in SubIds  PROVE Told(s)'
  <2>1. Live(subs[s])' => Live(subs[s])
    <3>1. subs[s] # Nil => subs[s].end \in Int  BY DEF IInv, TypeOK, Row
    <3> QED  BY <1>1, <3>1 DEF Live
  <2> QED  BY <1>1, <2>1 DEF IInv, Told
<1> QED  BY <1>2, <1>3, <1>5, <1>6 DEF IInv

LEMMA InvInit == Init => IInv
<1> SUFFICES ASSUME Init PROVE IInv  OBVIOUS
<1>1. Idle \in [pc : Phases, rows : SUBSET ((ISAIds \cup SubIds) \X Nat)] /\ Idle.pc = "idle"
  BY DEF Idle, Phases
<1>2. KnowsNothing \in [ISAIds -> Knowledge]  BY DEF KnowsNothing, Knowledge
<1>3. TypeOK  BY <1>1, <1>2, BoundsAssumption DEF Init, TypeOK
<1>4. Versions  BY DEF Init, Versions
<1>5. \A g \in Servers : Listed(g)  BY <1>1 DEF Init, Listed
<1>6. \A s \in SubIds : Told(s)  BY DEF Init, Told, KnowsNothing
<1> QED  BY <1>3, <1>4, <1>5, <1>6 DEF IInv

\* Every step keeps the invariant.
LEMMA InvNext == IInv /\ [Next]_vars => IInv'
<1> SUFFICES ASSUME IInv, [Next]_vars PROVE IInv'  OBVIOUS
<1>1. ASSUME NEW o \in Owners, NEW i \in ISAIds, NEW e \in ISAExtents, NEW g \in Servers, PutISA(o, i, e, g)
      PROVE  IInv'
  BY <1>1, InvPutISA
<1>2. ASSUME NEW o \in Owners, NEW i \in ISAIds, DeleteISA(o, i)  PROVE IInv'
  BY <1>2, InvDeleteISA
<1>3. ASSUME NEW o \in Owners, NEW s \in SubIds, NEW e \in SubExtents, NEW g \in Servers,
             PutSubscription(o, s, e, g)
      PROVE  IInv'
  BY <1>3, InvPutSubscription
<1>4. ASSUME NEW s \in SubIds, AnswerSubscription(s)  PROVE IInv'
  BY <1>4, InvAnswerSubscription
<1>5. ASSUME NEW o \in Owners, NEW s \in SubIds, DeleteSubscription(o, s)  PROVE IInv'
  BY <1>5, InvDeleteSubscription
<1>6. ASSUME NEW g \in Servers, Collect(g) \/ Crash(g)  PROVE IInv'
  BY <1>6, InvListing, InvCollectISA, InvCollectSubscription DEF Collect
<1>7. CASE Tick  BY <1>7, InvTick
<1>8. CASE UNCHANGED vars
  <2>1. UNCHANGED <<now, isas, subs, gc, stamp, crashes, answered, known>>  BY <1>8 DEF vars
  <2> QED  BY <2>1 DEF IInv, TypeOK, Versions, Listed, MayDelete, Deletes, Expired, Told, Live
<1> QED  BY <1>1, <1>2, <1>3, <1>4, <1>5, <1>6, <1>7, <1>8 DEF Next

-----------------------------------------------------------------------------
(* The theorems *)

\* Every reachable state is well-formed.
THEOREM RIDTypeOK == Spec => []TypeOK
<1>1. IInv => TypeOK  BY DEF IInv
<1> QED  BY <1>1, InvInit, InvNext, PTL DEF Spec

\* No subscriber with a subscription that has not ended holds an old version
\* of an ISA, although each write notifies only the cells it concerns.
THEOREM RIDNoStaleISA == Spec => []NoStaleISA
<1>1. IInv => NoStaleISA  BY DEF IInv, NoStaleISA, Told
<1> QED  BY <1>1, InvInit, InvNext, PTL DEF Spec

\* While the searches are not cut off by their limit, what a subscriber was
\* told stays complete in every step.
LEMMA SubscribersKnowStep ==
  ASSUME Cardinality(ISAIds) <= MaxResultLimit, IInv, SubscribersKnowISAs, [Next]_vars
  PROVE  SubscribersKnowISAs'
<1> SUFFICES ASSUME NEW s \in answered', NEW i \in ISAIds, Live(subs[s])', Live(isas[i])',
                    SharesCellId(subs'[s].cells, isas'[i].cells)
             PROVE  known'[s][i] = "current"
  BY DEF SubscribersKnowISAs
<1>1. TypeOK /\ TypeOK'  BY InvNext DEF IInv
<1>2. s \in SubIds  BY <1>1 DEF TypeOK
<1>3. s \in answered /\ Live(subs[s]) /\ Live(isas[i]) /\ SharesCellId(subs[s].cells, isas[i].cells)
        => known[s][i] = "current"
  BY DEF SubscribersKnowISAs
<1>4. ASSUME NEW o \in Owners, NEW j \in ISAIds, NEW e \in ISAExtents, NEW g \in Servers, PutISA(o, j, e, g)
      PROVE  known'[s][i] = "current"
  <2> DEFINE N == NotifiedIn(AffectedCells(isas[j], e.cells))
  <2>1. /\ UNCHANGED <<now, subs, answered>> /\ isas' = [isas EXCEPT ![j] = NewISA(o, e, isas[j], g)]
        /\ known' = KnownAfter(j, N, e.cells)
    BY <1>4 DEF PutISA
  <2>2. e.cells \in SUBSET Cells  BY ExtentsAssumption DEF Extent
  <2>3. /\ \A k \in ISAIds \ {j} : known'[s][k] = known[s][k]
        /\ known'[s][j] =
             IF s \in N THEN IF SharesCellId(subs[s].cells, e.cells) THEN "current" ELSE "nothing"
             ELSE IF known[s][j] = "nothing" THEN "nothing" ELSE "stale"
    BY <1>1, <1>2, <2>1, KnownAfterValue DEF TypeOK
  <2>4. CASE i = j
    <3>1. isas'[i].cells = e.cells  BY <1>1, <2>1, <2>4 DEF TypeOK, NewISA
    <3>2. Live(subs[s]) /\ SharesCellId(subs[s].cells, e.cells)  BY <2>1, <3>1 DEF Live
    <3>3. s \in N  BY <1>1, <1>2, <2>2, <3>2, AffectedAreNotified
    <3> QED  BY <2>3, <2>4, <3>2, <3>3
  <2>5. CASE i # j
    <3>1. isas'[i] = isas[i]  BY <1>1, <2>1, <2>5 DEF TypeOK
    <3> QED  BY <1>3, <2>1, <2>3, <2>5, <3>1 DEF Live
  <2> QED  BY <2>4, <2>5
<1>5. ASSUME NEW o \in Owners, NEW j \in ISAIds, DeleteISA(o, j)  PROVE known'[s][i] = "current"
  <2>1. /\ UNCHANGED <<now, subs, answered>> /\ isas' = [isas EXCEPT ![j] = Nil]
        /\ known' = KnownAfter(j, NotifiedIn(isas[j].cells), {})
    BY <1>5 DEF DeleteISA
  <2>2. i # j  BY <1>1, <2>1 DEF TypeOK, Live
  <2>3. isas'[i] = isas[i]  BY <1>1, <2>1, <2>2 DEF TypeOK
  <2>4. known'[s][i] = known[s][i]
    BY <1>1, <1>2, <2>1, <2>2, KnownAfterValue DEF TypeOK
  <2> QED  BY <1>3, <2>1, <2>3, <2>4 DEF Live
<1>6. ASSUME NEW r \in SubIds, answered' = answered \ {r}, UNCHANGED <<now, isas>>,
             known' = [known EXCEPT ![r] = KnowsNothing],
             \E row : subs' = [subs EXCEPT ![r] = row]
      PROVE  known'[s][i] = "current"
  <2>1. s # r /\ s \in answered  BY <1>6
  <2>2. subs'[s] = subs[s] /\ known'[s] = known[s]  BY <1>1, <1>2, <1>6, <2>1 DEF TypeOK
  <2> QED  BY <1>3, <1>6, <2>1, <2>2 DEF Live
<1>7. ASSUME NEW o \in Owners, NEW r \in SubIds, NEW e \in SubExtents, NEW g \in Servers,
             PutSubscription(o, r, e, g)
      PROVE  known'[s][i] = "current"
  BY <1>6, <1>7 DEF PutSubscription
<1>8. ASSUME NEW o \in Owners, NEW r \in SubIds, DeleteSubscription(o, r)
      PROVE  known'[s][i] = "current"
  BY <1>6, <1>8 DEF DeleteSubscription
<1>9. ASSUME NEW r \in SubIds, AnswerSubscription(r)  PROVE known'[s][i] = "current"
  <2>1. UNCHANGED <<now, isas, subs>> /\ answered' = answered \cup {r}
    BY <1>9 DEF AnswerSubscription
  <2>2. PICK found \in SearchISAs(subs[r].cells) :
          known' = [known EXCEPT ![r] = [j \in ISAIds |-> IF j \in found THEN "current" ELSE @[j]]]
    BY <1>9 DEF AnswerSubscription
  <2>3. CASE s = r
    <3>1. i \in found  BY <2>1, <2>3, SearchFinds DEF Live, SharesCellId
    <3> QED  BY <1>1, <2>2, <2>3, <3>1 DEF TypeOK
  <2>4. CASE s # r
    <3>1. known'[s] = known[s]  BY <1>1, <1>2, <2>2, <2>4 DEF TypeOK
    <3> QED  BY <1>3, <2>1, <2>4, <3>1 DEF Live
  <2> QED  BY <2>3, <2>4
<1>10. ASSUME NEW g \in Servers, CollectISA(g)  PROVE known'[s][i] = "current"
  <2>1. UNCHANGED <<now, subs, answered>>  BY <1>10 DEF CollectISA
  <2>2. PICK r \in gc[g].rows :
          IF Deletes(isas, r)
          THEN /\ isas' = [isas EXCEPT ![r[1]] = Nil]
               /\ known' = [q \in SubIds |-> [known[q] EXCEPT ![r[1]] =
                    IF @ = "current" /\ Live(isas[r[1]]) THEN "stale" ELSE "nothing"]]
          ELSE UNCHANGED <<isas, known>>
    BY <1>10 DEF CollectISA
  <2>3. CASE ~Deletes(isas, r)  BY <1>3, <2>1, <2>2, <2>3 DEF Live
  <2>4. CASE Deletes(isas, r)
    <3>1. i # r[1]  BY <1>1, <2>2, <2>4 DEF TypeOK, Live
    <3>2. isas'[i] = isas[i] /\ known'[s][i] = known[s][i]
      BY <1>1, <1>2, <2>2, <2>4, <3>1 DEF TypeOK
    <3> QED  BY <1>3, <2>1, <3>2 DEF Live
  <2> QED  BY <2>3, <2>4
<1>11. ASSUME NEW g \in Servers, CollectSubscription(g)  PROVE known'[s][i] = "current"
  <2>1. UNCHANGED <<now, isas>> /\ gc[g].pc = "subs"  BY <1>11 DEF CollectSubscription
  <2>2. PICK r \in gc[g].rows :
          IF Deletes(subs, r)
          THEN /\ subs' = [subs EXCEPT ![r[1]] = Nil]
               /\ answered' = answered \ {r[1]}
               /\ known' = [known EXCEPT ![r[1]] = KnowsNothing]
          ELSE UNCHANGED <<subs, answered, known>>
    BY <1>11 DEF CollectSubscription
  <2>3. r[1] \in SubIds  BY <2>1 DEF IInv, Listed, MayDelete
  <2>4. CASE ~Deletes(subs, r)  BY <1>3, <2>1, <2>2, <2>4 DEF Live
  <2>5. CASE Deletes(subs, r)  BY <1>6, <2>1, <2>2, <2>3, <2>5
  <2> QED  BY <2>4, <2>5
<1>12. ASSUME NEW g \in Servers,
              ListExpiredISAs(g) \/ ListExpiredSubscriptions(g) \/ EndCollection(g) \/ Crash(g)
       PROVE  known'[s][i] = "current"
  <2>1. UNCHANGED <<now, isas, subs, answered, known>>
    BY <1>12 DEF ListExpiredISAs, ListExpiredSubscriptions, EndCollection, Crash
  <2> QED  BY <1>3, <2>1 DEF Live
<1>13. CASE Tick
  <2>1. UNCHANGED <<isas, subs, answered, known>> /\ now' = now + 1 /\ now \in Int
    BY <1>13, BoundsAssumption DEF Tick, IInv, TypeOK
  <2>2. (subs[s] # Nil => subs[s].end \in Int) /\ (isas[i] # Nil => isas[i].end \in Int)
    BY <1>1, <1>2 DEF TypeOK, Row
  <2>3. Live(subs[s]) /\ Live(isas[i])  BY <2>1, <2>2 DEF Live
  <2> QED  BY <1>3, <2>1, <2>3
<1>14. CASE UNCHANGED vars  BY <1>3, <1>14 DEF vars, Live
<1> QED  BY <1>4, <1>5, <1>7, <1>8, <1>9, <1>10, <1>11, <1>12, <1>13, <1>14 DEF Next, Collect

\* A subscriber whose subscription was answered knows every ISA in its cells,
\* as long as the table of ISAs fits into the answer of one search.
THEOREM RIDSubscribersKnowISAs ==
  ASSUME Cardinality(ISAIds) <= MaxResultLimit
  PROVE  Spec => []SubscribersKnowISAs
<1>1. Init => SubscribersKnowISAs  BY DEF Init, SubscribersKnowISAs
<1>2. IInv /\ SubscribersKnowISAs /\ [Next]_vars => SubscribersKnowISAs'
  BY SubscribersKnowStep
<1> QED  BY <1>1, <1>2, InvInit, InvNext, PTL DEF Spec

\* What a collector deletes expired and was written in its own locality, even
\* if its owner wrote it again after it was listed.
THEOREM RIDCollectsOnlyExpired == Spec => CollectsOnlyExpired
<1> DEFINE Collected ==
      gc' # gc =>
        /\ \A i \in ISAIds : isas[i] # Nil /\ isas'[i] = Nil =>
             Expired(isas[i]) /\ gc'[isas[i].writer] # gc[isas[i].writer]
        /\ \A s \in SubIds : subs[s] # Nil /\ subs'[s] = Nil =>
             Expired(subs[s]) /\ gc'[subs[s].writer] # gc[subs[s].writer]
<1>1. ASSUME IInv, [Next]_vars  PROVE [Collected]_vars
  <2> SUFFICES ASSUME gc' # gc PROVE Collected  OBVIOUS
  <2>1. PICK g \in Servers : Collect(g) \/ Crash(g)
    BY <1>1 DEF Next, vars, PutISA, DeleteISA, PutSubscription, AnswerSubscription,
                DeleteSubscription, Tick
  <2>2. CASE ListExpiredISAs(g) \/ ListExpiredSubscriptions(g) \/ EndCollection(g) \/ Crash(g)
    <3>1. UNCHANGED <<isas, subs>>
      BY <2>2 DEF ListExpiredISAs, ListExpiredSubscriptions, EndCollection, Crash
    <3> QED  BY <3>1
  <2>3. CASE CollectISA(g)
    <3>1. gc[g].pc = "isas" /\ UNCHANGED subs  BY <2>3 DEF CollectISA
    <3>2. PICK r \in gc[g].rows :
            IF Deletes(isas, r)
            THEN /\ isas' = [isas EXCEPT ![r[1]] = Nil]
                 /\ gc' = [gc EXCEPT ![g] = [pc |-> "list", rows |-> {}]]
            ELSE UNCHANGED isas
      BY <2>3 DEF CollectISA
    <3> SUFFICES ASSUME NEW i \in ISAIds, isas[i] # Nil, isas'[i] = Nil
                 PROVE  Expired(isas[i]) /\ gc'[isas[i].writer] # gc[isas[i].writer]
      BY <3>1
    <3>3. Deletes(isas, r)  BY <3>2
    <3>4. i = r[1]  BY <1>1, <3>2, <3>3 DEF IInv, TypeOK
    <3>5. Expired(isas[i]) /\ isas[i].writer = g
      BY <1>1, <3>1, <3>3, <3>4 DEF IInv, Listed, MayDelete
    <3>6. gc'[g].pc = "list"  BY <1>1, <3>2, <3>3 DEF IInv, TypeOK
    <3> QED  BY <3>1, <3>5, <3>6
  <2>4. CASE CollectSubscription(g)
    <3>1. gc[g].pc = "subs" /\ UNCHANGED isas  BY <2>4 DEF CollectSubscription
    <3>2. PICK r \in gc[g].rows :
            IF Deletes(subs, r)
            THEN /\ subs' = [subs EXCEPT ![r[1]] = Nil]
                 /\ gc' = [gc EXCEPT ![g] = Idle]
            ELSE UNCHANGED subs
      BY <2>4 DEF CollectSubscription
    <3> SUFFICES ASSUME NEW s \in SubIds, subs[s] # Nil, subs'[s] = Nil
                 PROVE  Expired(subs[s]) /\ gc'[subs[s].writer] # gc[subs[s].writer]
      BY <3>1
    <3>3. Deletes(subs, r)  BY <3>2
    <3>4. s = r[1]  BY <1>1, <3>2, <3>3 DEF IInv, TypeOK
    <3>5. Expired(subs[s]) /\ subs[s].writer = g
      BY <1>1, <3>1, <3>3, <3>4 DEF IInv, Listed, MayDelete
    <3>6. gc'[g].pc = "idle"  BY <1>1, <3>2, <3>3 DEF IInv, TypeOK, Idle
    <3> QED  BY <3>1, <3>5, <3>6
  <2> QED  BY <2>1, <2>2, <2>3, <2>4 DEF Collect
<1> QED  BY <1>1, InvInit, InvNext, PTL DEF Spec, CollectsOnlyExpired

\* The subscriptions of an owner that count in a cell.
Counted(o, c) == {s \in SubIds : Live(subs[s]) /\ subs[s].owner = o /\ c \in subs[s].cells}

\* Fewer subscriptions count less.
LEMMA CountedFewer ==
  ASSUME SubscriptionsPerArea, NEW o \in Owners, NEW c \in Cells, NEW S \in SUBSET Counted(o, c)
  PROVE  Cardinality(S) <= MaxSubscriptionsPerArea
<1>1. IsFiniteSet(Counted(o, c))  BY IdsAssumption, FS_Subset DEF Counted
<1>2. Cardinality(S) <= Cardinality(Counted(o, c)) /\ Cardinality(S) \in Nat
      /\ Cardinality(Counted(o, c)) \in Nat
  BY <1>1, FS_Subset, FS_CardinalityType
<1>3. Cardinality(Counted(o, c)) <= MaxSubscriptionsPerArea /\ MaxSubscriptionsPerArea \in Nat
  BY BoundsAssumption DEF SubscriptionsPerArea, Counted
<1> QED  BY <1>2, <1>3

\* The only step after which more subscriptions count is one that counted them.
LEMMA PerAreaStep == IInv /\ SubscriptionsPerArea /\ [Next]_vars => SubscriptionsPerArea'
<1> SUFFICES ASSUME IInv, SubscriptionsPerArea, [Next]_vars, NEW o \in Owners, NEW c \in Cells
             PROVE  Cardinality(Counted(o, c)') <= MaxSubscriptionsPerArea
  BY DEF SubscriptionsPerArea, Counted
<1>1. ASSUME Counted(o, c)' \subseteq Counted(o, c)
      PROVE  Cardinality(Counted(o, c)') <= MaxSubscriptionsPerArea
  <2> DEFINE S == Counted(o, c)'
  <2>1. S \in SUBSET Counted(o, c)  BY <1>1
  <2> HIDE DEF S
  <2>2. Cardinality(S) <= MaxSubscriptionsPerArea  BY <2>1, CountedFewer
  <2> QED  BY <2>2 DEF S
<1>2. CASE UNCHANGED <<now, subs>>
  <2>1. Counted(o, c)' \subseteq Counted(o, c)  BY <1>2 DEF Counted, Live
  <2> QED  BY <1>1, <2>1
<1>3. ASSUME NEW q \in Owners, NEW s \in SubIds, NEW e \in SubExtents, NEW g \in Servers,
             PutSubscription(q, s, e, g)
      PROVE  Cardinality(Counted(o, c)') <= MaxSubscriptionsPerArea
  <2>1. /\ now' = now /\ subs' = [subs EXCEPT ![s] = NewSub(q, e, subs[s], g)]
        /\ RoomFor(q, e.cells)
    BY <1>3 DEF PutSubscription
  <2>2. subs'[s].owner = q /\ subs'[s].cells = e.cells
    BY <2>1 DEF IInv, TypeOK, NewSub
  <2>3. \A r \in SubIds \ {s} : subs'[r] = subs[r]  BY <2>1 DEF IInv, TypeOK
  <2>4. CASE o = q /\ c \in e.cells
    <3> DEFINE S == Counted(o, c)  T == Counted(o, c)'
    <3>1. T \subseteq S \cup {s}  BY <2>1, <2>3 DEF Counted, Live
    <3>2. IsFiniteSet(S)  BY IdsAssumption, FS_Subset DEF Counted
    <3>3. Cardinality(S) < MaxSubscriptionsPerArea
      BY <2>1, <2>4 DEF RoomFor, CountInCell, Counted
    <3> HIDE DEF S, T
    <3>4. IsFiniteSet(S \cup {s}) /\ Cardinality(S \cup {s}) <= Cardinality(S) + 1
      <4>1. /\ IsFiniteSet(S \cup {s})
            /\ Cardinality(S \cup {s}) = Cardinality(S) \/ Cardinality(S \cup {s}) = Cardinality(S) + 1
        BY <3>2, FS_AddElement
      <4>2. Cardinality(S) \in Nat  BY <3>2, FS_CardinalityType
      <4> QED  BY <4>1, <4>2
    <3>5. Cardinality(T) <= Cardinality(S \cup {s})  BY <3>1, <3>4, FS_Subset
    <3>6. Cardinality(T) \in Nat /\ Cardinality(S) \in Nat /\ Cardinality(S \cup {s}) \in Nat
      BY <3>1, <3>2, <3>4, FS_Subset, FS_CardinalityType
    <3>7. MaxSubscriptionsPerArea \in Nat  BY BoundsAssumption
    <3>8. Cardinality(T) <= MaxSubscriptionsPerArea  BY <3>3, <3>4, <3>5, <3>6, <3>7
    <3> QED  BY <3>8 DEF T
  <2>5. CASE ~(o = q /\ c \in e.cells)
    <3>1. Counted(o, c)' \subseteq Counted(o, c)  BY <2>1, <2>2, <2>3, <2>5 DEF Counted, Live
    <3> QED  BY <1>1, <3>1
  <2> QED  BY <2>4, <2>5
<1>4. ASSUME NEW s, subs' = [subs EXCEPT ![s] = Nil], now' = now
      PROVE  Cardinality(Counted(o, c)') <= MaxSubscriptionsPerArea
  <2>1. \A r \in SubIds : subs'[r] # Nil => subs'[r] = subs[r]  BY <1>4 DEF IInv, TypeOK
  <2>2. Counted(o, c)' \subseteq Counted(o, c)  BY <1>4, <2>1 DEF Counted, Live
  <2> QED  BY <1>1, <2>2
<1>5. ASSUME NEW q \in Owners, NEW s \in SubIds, DeleteSubscription(q, s)
      PROVE  Cardinality(Counted(o, c)') <= MaxSubscriptionsPerArea
  BY <1>4, <1>5 DEF DeleteSubscription
<1>6. ASSUME NEW g \in Servers, CollectSubscription(g)
      PROVE  Cardinality(Counted(o, c)') <= MaxSubscriptionsPerArea
  <2>1. now' = now  BY <1>6 DEF CollectSubscription
  <2>2. UNCHANGED subs \/ \E s : subs' = [subs EXCEPT ![s] = Nil]
    BY <1>6 DEF CollectSubscription
  <2> QED  BY <1>2, <1>4, <2>1, <2>2
<1>7. CASE Tick
  <2>1. UNCHANGED subs /\ now' = now + 1 /\ now \in Int
    BY <1>7, BoundsAssumption DEF Tick, IInv, TypeOK
  <2>2. \A s \in SubIds : subs[s] # Nil => subs[s].end \in Int  BY DEF IInv, TypeOK, Row
  <2>3. \A s \in SubIds : Live(subs[s])' => Live(subs[s])  BY <2>1, <2>2 DEF Live
  <2>4. Counted(o, c)' \subseteq Counted(o, c)  BY <2>1, <2>3 DEF Counted
  <2> QED  BY <1>1, <2>4
<1>8. ASSUME NEW q \in Owners, NEW i \in ISAIds, NEW e \in ISAExtents, NEW g \in Servers, PutISA(q, i, e, g)
      PROVE  UNCHANGED <<now, subs>>
  BY <1>8 DEF PutISA
<1>9. ASSUME NEW q \in Owners, NEW i \in ISAIds, DeleteISA(q, i)
      PROVE  UNCHANGED <<now, subs>>
  BY <1>9 DEF DeleteISA
<1>10. ASSUME NEW s \in SubIds, AnswerSubscription(s)  PROVE UNCHANGED <<now, subs>>
  BY <1>10 DEF AnswerSubscription
<1>11. ASSUME NEW g \in Servers, ListExpiredISAs(g) \/ CollectISA(g) \/ ListExpiredSubscriptions(g)
              \/ EndCollection(g) \/ Crash(g)
       PROVE  UNCHANGED <<now, subs>>
  BY <1>11 DEF ListExpiredISAs, CollectISA, ListExpiredSubscriptions, EndCollection, Crash
<1>12. CASE UNCHANGED vars  BY <1>2, <1>12 DEF vars
<1> QED  BY <1>2, <1>3, <1>5, <1>6, <1>7, <1>8, <1>9, <1>10, <1>11, <1>12 DEF Next, Collect

\* No owner exceeds its number of subscriptions in a cell.
THEOREM RIDSubscriptionsPerArea == Spec => []SubscriptionsPerArea
<1>1. ASSUME Init  PROVE SubscriptionsPerArea
  <2>1. ASSUME NEW o \in Owners, NEW c \in Cells  PROVE Counted(o, c) = {}
    BY <1>1 DEF Init, Counted, Live
  <2>2. Cardinality({}) = 0 /\ MaxSubscriptionsPerArea \in Nat
    BY FS_EmptySet, BoundsAssumption
  <2>3. ASSUME NEW o \in Owners, NEW c \in Cells
        PROVE  Cardinality(Counted(o, c)) <= MaxSubscriptionsPerArea
    BY <2>1, <2>2
  <2> QED  BY <2>3 DEF SubscriptionsPerArea, Counted
<1> QED  BY <1>1, InvInit, InvNext, PerAreaStep, PTL DEF Spec

=============================================================================
