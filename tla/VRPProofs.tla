------------------------------ MODULE VRPProofs ------------------------------
(***************************************************************************)
(* Proofs about vertiport reservations, for any number of vertiports,      *)
(* entities, subscriptions and instants: what managers and subscribers     *)
(* know, what subscriptions cover, and what the schedule queries answer.   *)
(* The arithmetic of the answers is in VertiportScheduleProofs.            *)
(***************************************************************************)
EXTENDS VRP, VertiportScheduleProofs

\* The knowledge followed is that of explicit subscriptions, of what they asked for.
KnowsWhatItAsked ==
  \A s \in SubIds, e \in Entities :
    known[s][e] # "nothing" => subs[s] # Nil /\ ~subs[s].implicit /\ AskedFor(subs[s], e)

\* The inductive invariant.
IInv ==
  /\ TypeOK
  /\ ExplicitSupportCovers
  /\ ConflictsSeen
  /\ KnowsWhatItAsked
  /\ SubscribersKnow

-----------------------------------------------------------------------------
(* Reservations *)

\* What meets a reservation is found by a search of it.
LEMMA MeetingIsFound ==
  ASSUME NEW row, row # Nil, row.res \in Reservation,
         NEW r, r.vertiport = row.res.vertiport, r.zone = row.res.zone,
         r.start \in OptInt, r.end \in OptInt,
         NEW t \in row.res.start .. row.res.end,
         r.start # Nil => r.start <= t, r.end # Nil => t <= r.end
  PROVE  Found(row, r)
<1>1. row.res.start \in Int /\ row.res.end \in Int  BY DEF Reservation
<1> QED  BY <1>1, NilAssumption DEF Found, AtLeast, OptInt

LEMMA MeetIsFound ==
  ASSUME NEW row, row # Nil, row.res \in Reservation, NEW r \in Reservation,
         Meet(row.res, r) \/ Meet(r, row.res)
  PROVE  Found(row, r)
<1>1. r.start \in Int /\ r.end \in Int /\ row.res.start \in Int /\ row.res.end \in Int
  BY DEF Reservation
<1>2. PICK t \in r.start .. r.end : t \in row.res.start .. row.res.end  BY DEF Meet
<1> QED  BY <1>1, <1>2, MeetingIsFound DEF Meet, OptInt

\* What is known once an entity has changed.
LEMMA KnownAfterValue ==
  ASSUME known \in [SubIds -> [Entities -> Knowledge]],
         NEW i \in Entities, NEW news \in Knowledge, NEW N, NEW lost
  PROVE  /\ KnownAfter(i, news, N, lost) \in [SubIds -> [Entities -> Knowledge]]
         /\ \A s \in SubIds, e \in Entities :
              KnownAfter(i, news, N, lost)[s][e] =
                IF e = i /\ s \in N THEN news
                ELSE IF e \in {i} \cup lost /\ known[s][e] # "nothing" THEN "stale" ELSE known[s][e]
  BY DEF KnownAfter, Knowledge

\* An operational intent is stored.
LEMMA StoreOpType ==
  ASSUME TypeOK, NEW m \in Managers, NEW i \in OpIds, NEW st \in RequestStates,
         NEW r \in OpReservations, NEW s \in SubIds, NEW sub, StoreOp(m, i, st, r, s, sub),
         subs' \in [SubIds -> Sub \cup {Nil}]
  PROVE  /\ TypeOK'
         /\ ops'[i] = [manager |-> m, state |-> st, res |-> r, sub |-> s]
         /\ \A j \in OpIds \ {i} : ops'[j] = ops[j]
         /\ ops'[i] \in Op
<1>1. r \in Reservation /\ st \in States  BY RequestsAssumption
<1>2. [manager |-> m, state |-> st, res |-> r, sub |-> s] \in Op  BY <1>1 DEF Op
<1>3. ops' \in [OpIds -> Op \cup {Nil}] /\ ops'[i] = [manager |-> m, state |-> st, res |-> r, sub |-> s]
      /\ \A j \in OpIds \ {i} : ops'[j] = ops[j]
  BY <1>2 DEF StoreOp, TypeOK
<1>4. known' \in [SubIds -> [Entities -> Knowledge]]
  <2>1. i \in Entities /\ "current" \in Knowledge  BY DEF Entities, Knowledge
  <2>2. known' = KnownAfter(i, "current", NotifiedOfOps(r), {})  BY DEF StoreOp
  <2>3. known \in [SubIds -> [Entities -> Knowledge]]  BY DEF TypeOK
  <2> QED  BY <2>1, <2>2, <2>3, KnownAfterValue
<1>5. KeyFor(st, r, sub) \subseteq Entities
  BY DEF KeyFor, SearchOps, SearchConstraints, Entities
<1>6. aware' \subseteq OpIds \X Entities
  BY <1>5 DEF StoreOp, AwareWithout, TypeOK
<1>7. UNCHANGED <<now, vertiports, constraints>>  BY DEF StoreOp
<1> QED  BY <1>2, <1>3, <1>4, <1>6, <1>7 DEF TypeOK

\* The supporting subscription after the three ways of choosing it.
Supporting(m, r, s) ==
  /\ subs'[s] # Nil /\ subs'[s].manager = m
  /\ ~subs'[s].implicit => Covers(subs'[s].res, r)

\* How an operational intent changes the subscriptions: explicit ones not at
\* all, and the others stay with their manager.
SupportsKept ==
  \A q \in SubIds :
    /\ subs[q] # Nil => subs'[q] # Nil /\ subs'[q].manager = subs[q].manager
    /\ subs'[q] # Nil /\ ~subs'[q].implicit => subs'[q] = subs[q]
    /\ subs[q] # Nil /\ ~subs[q].implicit => subs'[q] = subs[q]

\* PutVertiportOperationalIntentReference, whichever subscription supports it.
LEMMA PutOpStep ==
  ASSUME TypeOK, NEW m \in Managers, NEW i \in OpIds, PutOp(m, i)
  PROVE  \E st \in RequestStates, r \in OpReservations, s \in SubIds, sub \in Sub :
           /\ StoreOp(m, i, st, r, s, sub)
           /\ subs' \in [SubIds -> Sub \cup {Nil}]
           /\ Supporting(m, r, s) /\ SupportsKept
<1>1. PICK st \in RequestStates, r \in OpReservations, s \in SubIds :
        \/ \E fc \in ConstraintFlags : PutOpWithImplicitSub(m, i, st, r, s, fc)
        \/ PutOpWithCoveringSub(m, i, st, r, s)
        \/ PutOpExtendingSub(m, i, st, r, s)
  BY DEF PutOp
<1>2. r \in Reservation  BY RequestsAssumption
<1>3. ASSUME NEW fc \in ConstraintFlags, PutOpWithImplicitSub(m, i, st, r, s, fc)
      PROVE  \E sub \in Sub : /\ StoreOp(m, i, st, r, s, sub)
                              /\ subs' \in [SubIds -> Sub \cup {Nil}]
                              /\ Supporting(m, r, s) /\ SupportsKept
  <2> DEFINE sub == [manager |-> m, res |-> r, notifyOps |-> TRUE, notifyConstraints |-> fc,
                     implicit |-> TRUE]
  <2>1. subs[s] = Nil /\ subs' = [subs EXCEPT ![s] = sub] /\ StoreOp(m, i, st, r, s, sub)
    BY <1>3 DEF PutOpWithImplicitSub
  <2>2. fc \in BOOLEAN  BY RequestsAssumption
  <2>3. sub \in Sub /\ sub.manager = m /\ sub.implicit = TRUE  BY <1>2, <2>2 DEF Sub
  <2> HIDE DEF sub
  <2>4. sub # Nil  BY <2>3, NilIsNoRow
  <2>5. subs' \in [SubIds -> Sub \cup {Nil}]  BY <2>1, <2>3 DEF TypeOK
  <2>6. subs'[s] = sub /\ \A q \in SubIds \ {s} : subs'[q] = subs[q]  BY <2>1 DEF TypeOK
  <2>7. Supporting(m, r, s)  BY <2>3, <2>4, <2>6 DEF Supporting
  <2>8. SupportsKept  BY <2>1, <2>3, <2>6 DEF SupportsKept
  <2> QED  BY <2>1, <2>3, <2>5, <2>7, <2>8
<1>4. CASE PutOpWithCoveringSub(m, i, st, r, s)
  <2>1. /\ subs[s] # Nil /\ subs[s].manager = m /\ Covers(subs[s].res, r) /\ subs' = subs
        /\ StoreOp(m, i, st, r, s, subs[s])
    BY <1>4 DEF PutOpWithCoveringSub
  <2>2. Supporting(m, r, s) /\ SupportsKept  BY <2>1 DEF Supporting, SupportsKept
  <2>3. subs[s] \in Sub  BY <2>1 DEF TypeOK
  <2> QED  BY <2>1, <2>2, <2>3 DEF TypeOK
<1>5. CASE PutOpExtendingSub(m, i, st, r, s)
  <2> DEFINE x == [subs[s] EXCEPT !.res = Extended(@, r)]
  <2>1. /\ subs[s] # Nil /\ subs[s].manager = m /\ subs[s].implicit
        /\ subs' = [subs EXCEPT ![s].res = Extended(@, r)]
        /\ StoreOp(m, i, st, r, s, subs[s])
    BY <1>5 DEF PutOpExtendingSub
  <2>2. subs[s] \in Sub  BY <2>1 DEF TypeOK
  <2>3. Extended(subs[s].res, r) \in Reservation
    BY <1>2, <2>2 DEF Extended, Reservation, Sub
  <2>4. x \in Sub /\ x.manager = m /\ x.implicit = TRUE
    BY <2>1, <2>2, <2>3 DEF Sub
  <2>5. subs' = [subs EXCEPT ![s] = x]  BY <2>1
  <2> HIDE DEF x
  <2>6. x # Nil  BY <2>4, NilIsNoRow
  <2>7. subs' \in [SubIds -> Sub \cup {Nil}]  BY <2>4, <2>5 DEF TypeOK
  <2>8. subs'[s] = x /\ \A q \in SubIds \ {s} : subs'[q] = subs[q]  BY <2>5 DEF TypeOK
  <2>9. Supporting(m, r, s)  BY <2>4, <2>6, <2>8 DEF Supporting
  <2>10. SupportsKept  BY <2>1, <2>4, <2>6, <2>8 DEF SupportsKept
  <2> QED  BY <2>1, <2>2, <2>7, <2>9, <2>10
<1> QED  BY <1>1, <1>3, <1>4, <1>5

-----------------------------------------------------------------------------
(* The steps *)

\* An operational intent is announced to all whom a search of its extent
\* finds, and its key holds all that the same search finds.
LEMMA InvPutOp ==
  ASSUME IInv, NEW m \in Managers, NEW i \in OpIds, PutOp(m, i)
  PROVE  IInv'
<1>1. TypeOK  BY DEF IInv
<1>2. PICK st \in RequestStates, r \in OpReservations, s \in SubIds, sub \in Sub :
        /\ StoreOp(m, i, st, r, s, sub)
        /\ subs' \in [SubIds -> Sub \cup {Nil}]
        /\ Supporting(m, r, s) /\ SupportsKept
  BY <1>1, PutOpStep
<1>3. r \in Reservation  BY RequestsAssumption
<1>4. /\ TypeOK'
      /\ ops'[i] = [manager |-> m, state |-> st, res |-> r, sub |-> s]
      /\ \A j \in OpIds \ {i} : ops'[j] = ops[j]
      /\ ops'[i] # Nil
  BY <1>1, <1>2, StoreOpType, NilIsNoRow
<1>5. /\ aware' = AwareWithout({i}) \cup {<<i, e>> : e \in KeyFor(st, r, sub) \ {i}}
      /\ known' = KnownAfter(i, "current", NotifiedOfOps(r), {})
      /\ UNCHANGED constraints
  BY <1>2 DEF StoreOp
<1>6. i \in Entities /\ "current" \in Knowledge  BY DEF Entities, Knowledge
<1>7. \A q \in SubIds, e \in Entities :
        known'[q][e] = IF e = i /\ q \in NotifiedOfOps(r) THEN "current"
                       ELSE IF e = i /\ known[q][e] # "nothing" THEN "stale" ELSE known[q][e]
  BY <1>1, <1>5, <1>6, KnownAfterValue DEF TypeOK
<1>8. ExplicitSupportCovers'
  <2> SUFFICES ASSUME NEW j \in OpIds, ops'[j] # Nil
               PROVE  LET q == subs'[ops'[j].sub] IN
                        /\ q # Nil /\ q.manager = ops'[j].manager
                        /\ ~q.implicit =>
                             /\ q.res.vertiport = ops'[j].res.vertiport /\ q.res.zone = ops'[j].res.zone
                             /\ q.res.start - ops'[j].res.start <= MaxClockSkew
                             /\ ops'[j].res.end <= q.res.end
    BY DEF ExplicitSupportCovers
  <2>1. CASE j = i
    <3>1. subs'[s].res \in Reservation  BY <1>2 DEF Supporting, Sub
    <3>2. Covers(subs'[s].res, r) => subs'[s].res.start - r.start <= MaxClockSkew
      BY <1>3, <3>1, RequestsAssumption DEF Covers, Reservation
    <3> QED  BY <1>2, <1>4, <2>1, <3>2 DEF Supporting, Covers
  <2>2. CASE j # i
    <3>1. ops'[j] = ops[j] /\ ops[j].sub \in SubIds  BY <1>1, <1>4, <2>2 DEF TypeOK, Op
    <3> QED  BY <1>2, <3>1 DEF IInv, ExplicitSupportCovers, SupportsKept
  <2> QED  BY <2>1, <2>2
<1>9. ConflictsSeen'
  <2> SUFFICES ASSUME NEW j \in OpIds, NEW k \in OpIds, j # k, ops'[j] # Nil, ops'[k] # Nil,
                      RequiresKey(ops'[j].state), RequiresKey(ops'[k].state),
                      Meet(ops'[j].res, ops'[k].res)
               PROVE  <<j, k>> \in aware' \/ <<k, j>> \in aware'
    BY DEF ConflictsSeen
  <2>1. ASSUME NEW l \in OpIds, l # i, ops[l] # Nil, RequiresKey(st),
               Meet(ops[l].res, r) \/ Meet(r, ops[l].res)
        PROVE  <<i, l>> \in aware'
    <3>1. ops[l].res \in Reservation  BY <1>1, <2>1 DEF TypeOK, Op
    <3>2. Found(ops[l], r)  BY <1>3, <2>1, <3>1, MeetIsFound
    <3>3. l \in KeyFor(st, r, sub) \ {i}  BY <2>1, <3>2 DEF KeyFor, SearchOps
    <3> QED  BY <1>5, <3>3
  <2>2. CASE j = i  BY <1>4, <2>1, <2>2
  <2>3. CASE k = i  BY <1>4, <2>1, <2>3
  <2>4. CASE j # i /\ k # i
    <3>1. <<j, k>> \in aware \/ <<k, j>> \in aware  BY <1>4, <2>4 DEF IInv, ConflictsSeen
    <3> QED  BY <1>5, <2>4, <3>1 DEF AwareWithout
  <2> QED  BY <2>2, <2>3, <2>4
<1>10. KnowsWhatItAsked'
  <2> SUFFICES ASSUME NEW q \in SubIds, NEW e \in Entities, known'[q][e] # "nothing"
               PROVE  subs'[q] # Nil /\ ~subs'[q].implicit /\ AskedFor(subs'[q], e)
    BY DEF KnowsWhatItAsked, AskedFor
  <2>1. CASE e = i /\ q \in NotifiedOfOps(r)
    <3>1. subs[q] # Nil /\ ~subs[q].implicit /\ subs[q].notifyOps
      BY <2>1 DEF NotifiedOfOps, SearchSubs, Found
    <3> QED  BY <1>2, <2>1, <3>1 DEF SupportsKept, AskedFor
  <2>2. CASE ~(e = i /\ q \in NotifiedOfOps(r))
    <3>1. known[q][e] # "nothing"  BY <1>7, <2>2
    <3>2. subs[q] # Nil /\ ~subs[q].implicit /\ AskedFor(subs[q], e)
      BY <3>1 DEF IInv, KnowsWhatItAsked
    <3> QED  BY <1>2, <3>2 DEF SupportsKept
  <2> QED  BY <2>1, <2>2
<1>11. SubscribersKnow'
  <2> SUFFICES ASSUME NEW q \in SubIds, NEW e \in Entities, subs'[q] # Nil, ~subs'[q].implicit,
                      AskedFor(subs'[q], e), RowOf(e)' # Nil, Meet(subs'[q].res, RowOf(e)'.res)
               PROVE  known'[q][e] = "current"
    BY DEF SubscribersKnow, AskedFor
  <2>1. subs'[q] = subs[q]  BY <1>2 DEF SupportsKept
  <2>2. CASE e = i
    <3>1. RowOf(e)' = ops'[i] /\ subs[q].notifyOps /\ Meet(subs[q].res, r)
      BY <1>4, <2>1, <2>2 DEF RowOf, AskedFor
    <3>2. subs[q].res \in Reservation  BY <1>1, <2>1 DEF TypeOK, Sub
    <3>3. Found(subs[q], r)  BY <1>3, <2>1, <3>1, <3>2, MeetIsFound
    <3>4. q \in NotifiedOfOps(r)  BY <2>1, <3>1, <3>3 DEF NotifiedOfOps, SearchSubs
    <3> QED  BY <1>7, <2>2, <3>4
  <2>3. CASE e # i
    <3>1. RowOf(e)' = RowOf(e)  BY <1>4, <1>5, <2>3 DEF RowOf
    <3>2. known[q][e] = "current"  BY <2>1, <3>1 DEF IInv, SubscribersKnow
    <3> QED  BY <1>7, <2>3, <3>2
  <2> QED  BY <2>2, <2>3
<1> QED  BY <1>4, <1>8, <1>9, <1>10, <1>11 DEF IInv

\* A deletion takes its own implicit subscription with it, and nothing else.
LEMMA DeleteOpStep ==
  ASSUME TypeOK, NEW m \in Managers, NEW i \in OpIds, DeleteOp(m, i)
  PROVE  /\ ops[i] # Nil /\ ops' = [j \in OpIds |-> IF j = i THEN Nil ELSE ops[j]]
         /\ subs' = [s \in SubIds |-> IF s \in RemovedWith(i) THEN Nil ELSE subs[s]]
         /\ aware' = AwareWithout({i})
         /\ known' = KnownAfter(i, "nothing", NotifiedOfOps(ops[i].res), {})
         /\ UNCHANGED <<now, vertiports, constraints>>
<1>1. \A j \in Cascade(RemovedWith(i)) : j = i
  BY DEF Cascade, RemovedWith, GetDependentOps
<1>2. {i} \cup Cascade(RemovedWith(i)) = {i}  BY <1>1
<1>3. ({i} \cup Cascade(RemovedWith(i))) \ {i} = {}  BY <1>2
<1> DEFINE gone == {i} \cup Cascade(RemovedWith(i))
<1>4. /\ ops[i] # Nil
      /\ ops' = [j \in OpIds |-> IF j \in gone THEN Nil ELSE ops[j]]
      /\ subs' = [s \in SubIds |-> IF s \in RemovedWith(i) THEN Nil ELSE subs[s]]
      /\ aware' = AwareWithout(gone)
      /\ known' = KnownAfter(i, "nothing", NotifiedOfOps(ops[i].res), gone \ {i})
      /\ UNCHANGED <<now, vertiports, constraints>>
  BY DEF DeleteOp
<1>5. gone = {i} /\ gone \ {i} = {}  BY <1>2, <1>3
<1> HIDE DEF gone
<1> QED  BY <1>4, <1>5

LEMMA InvDeleteOp ==
  ASSUME IInv, NEW m \in Managers, NEW i \in OpIds, DeleteOp(m, i)
  PROVE  IInv'
<1>1. TypeOK  BY DEF IInv
<1>2. /\ ops[i] # Nil /\ ops' = [j \in OpIds |-> IF j = i THEN Nil ELSE ops[j]]
      /\ subs' = [s \in SubIds |-> IF s \in RemovedWith(i) THEN Nil ELSE subs[s]]
      /\ aware' = AwareWithout({i})
      /\ known' = KnownAfter(i, "nothing", NotifiedOfOps(ops[i].res), {})
      /\ UNCHANGED <<now, vertiports, constraints>>
  BY <1>1, DeleteOpStep
<1>3. i \in Entities /\ "nothing" \in Knowledge  BY DEF Entities, Knowledge
<1>4. /\ known' \in [SubIds -> [Entities -> Knowledge]]
      /\ \A q \in SubIds, e \in Entities :
           known'[q][e] = IF e = i /\ q \in NotifiedOfOps(ops[i].res) THEN "nothing"
                          ELSE IF e = i /\ known[q][e] # "nothing" THEN "stale" ELSE known[q][e]
  BY <1>1, <1>2, <1>3, KnownAfterValue DEF TypeOK
<1>5. aware' \subseteq aware  BY <1>2 DEF AwareWithout
<1>6. TypeOK'  BY <1>1, <1>2, <1>4, <1>5 DEF TypeOK
<1>7. /\ \A j \in OpIds : ops'[j] # Nil => j # i /\ ops'[j] = ops[j]
      /\ \A q \in SubIds : /\ subs'[q] # Nil => subs'[q] = subs[q]
                           /\ q \notin RemovedWith(i) => subs'[q] = subs[q]
  BY <1>2
<1>8. ExplicitSupportCovers'
  <2> SUFFICES ASSUME NEW j \in OpIds, ops'[j] # Nil
               PROVE  LET q == subs'[ops'[j].sub] IN
                        /\ q # Nil /\ q.manager = ops'[j].manager
                        /\ ~q.implicit =>
                             /\ q.res.vertiport = ops'[j].res.vertiport /\ q.res.zone = ops'[j].res.zone
                             /\ q.res.start - ops'[j].res.start <= MaxClockSkew
                             /\ ops'[j].res.end <= q.res.end
    BY DEF ExplicitSupportCovers
  <2>1. j # i /\ ops'[j] = ops[j] /\ ops[j] # Nil /\ ops[j].sub \in SubIds
    BY <1>1, <1>7 DEF TypeOK, Op
  <2>2. ops[j].sub \notin RemovedWith(i)  BY <2>1 DEF RemovedWith, GetDependentOps
  <2> QED  BY <1>7, <2>1, <2>2 DEF IInv, ExplicitSupportCovers
<1>9. ConflictsSeen'
  BY <1>2, <1>7 DEF IInv, ConflictsSeen, AwareWithout
<1>10. KnowsWhatItAsked'
  <2> SUFFICES ASSUME NEW q \in SubIds, NEW e \in Entities, known'[q][e] # "nothing"
               PROVE  subs'[q] # Nil /\ ~subs'[q].implicit /\ AskedFor(subs'[q], e)
    BY DEF KnowsWhatItAsked, AskedFor
  <2>1. known[q][e] # "nothing"  BY <1>4
  <2>2. subs[q] # Nil /\ ~subs[q].implicit /\ AskedFor(subs[q], e)
    BY <2>1 DEF IInv, KnowsWhatItAsked
  <2>3. q \notin RemovedWith(i)  BY <2>2 DEF RemovedWith
  <2> QED  BY <1>7, <2>2, <2>3
<1>11. SubscribersKnow'
  <2> SUFFICES ASSUME NEW q \in SubIds, NEW e \in Entities, subs'[q] # Nil, ~subs'[q].implicit,
                      AskedFor(subs'[q], e), RowOf(e)' # Nil, Meet(subs'[q].res, RowOf(e)'.res)
               PROVE  known'[q][e] = "current"
    BY DEF SubscribersKnow, AskedFor
  <2>1. subs'[q] = subs[q]  BY <1>7
  <2>2. e # i /\ RowOf(e)' = RowOf(e)  BY <1>2, <1>7 DEF RowOf
  <2>3. known[q][e] = "current"  BY <2>1, <2>2 DEF IInv, SubscribersKnow
  <2> QED  BY <1>4, <2>2, <2>3
<1> QED  BY <1>6, <1>8, <1>9, <1>10, <1>11 DEF IInv

\* The reservation that is stored has both times.
LEMMA StoredType ==
  ASSUME TypeOK, NEW r \in Request, NEW s \in SubIds
  PROVE  LET new == Stored(r, subs[s]) IN
         /\ new \in Reservation
         /\ new.vertiport = r.vertiport /\ new.zone = r.zone
         /\ r.start # Nil => new.start = r.start
         /\ r.end # Nil => new.end = r.end
<1> DEFINE old == subs[s]
<1>1. r.start \in Int \cup {Nil} /\ r.end \in Int \cup {Nil} /\ now \in Int /\ MaxSubscriptionDuration \in Int
  BY RequestsAssumption DEF TypeOK, Request, OptInt
<1>2. old # Nil => old.res.start \in Int /\ old.res.end \in Int
  BY DEF TypeOK, Sub, Reservation
<1>3. AdjustedStart(r, old) \in Int  BY <1>1, <1>2 DEF AdjustedStart
<1>4. AdjustedEnd(r, old) \in Int  BY <1>1, <1>2, <1>3 DEF AdjustedEnd
<1>5. Stored(r, old) = [vertiport |-> r.vertiport, zone |-> r.zone,
                        start |-> AdjustedStart(r, old), end |-> AdjustedEnd(r, old)]
  BY DEF Stored
<1>6. Stored(r, old) \in Reservation  BY <1>3, <1>4, <1>5 DEF Reservation, Request
<1> QED  BY <1>5, <1>6 DEF AdjustedStart, AdjustedEnd

LEMMA InvPutSubscription ==
  ASSUME IInv, NEW m \in Managers, NEW s \in SubIds, NEW r \in SubReservations,
         NEW fo \in OpFlags, NEW fc \in ConstraintFlags, PutSubscription(m, s, r, fo, fc)
  PROVE  IInv'
<1> DEFINE new == Stored(r, subs[s])
           row == [manager |-> m, res |-> new, notifyOps |-> fo, notifyConstraints |-> fc,
                   implicit |-> FALSE]
<1>1. TypeOK /\ r \in Request /\ fo \in BOOLEAN /\ fc \in BOOLEAN /\ r.start \in OptInt /\ r.end \in OptInt
  BY RequestsAssumption DEF IInv, Request
<1>2. /\ new \in Reservation /\ new.vertiport = r.vertiport /\ new.zone = r.zone
      /\ r.start # Nil => new.start = r.start
      /\ r.end # Nil => new.end = r.end
  BY <1>1, StoredType
<1>3. /\ subs[s] # Nil => subs[s].manager = m
      /\ \A i \in GetDependentOps(s) : ValidDependentOp(ops[i], new)
      /\ subs' = [subs EXCEPT ![s] = row]
      /\ known' = [known EXCEPT ![s] = [e \in Entities |->
                     IF e \in Answered(r, new, fo, fc) THEN "current" ELSE "nothing"]]
      /\ UNCHANGED <<now, vertiports, ops, constraints, aware>>
  BY DEF PutSubscription
<1> HIDE DEF new
<1>4. row \in Sub /\ row # Nil
  <2>1. row \in Sub  BY <1>1, <1>2 DEF Sub
  <2> QED  BY <2>1, NilIsNoRow
<1>5. subs'[s] = row /\ \A q \in SubIds \ {s} : subs'[q] = subs[q]  BY <1>1, <1>3 DEF TypeOK
<1>6. /\ \A e \in Entities : known'[s][e] = IF e \in Answered(r, new, fo, fc) THEN "current" ELSE "nothing"
      /\ \A q \in SubIds \ {s} : known'[q] = known[q]
      /\ known' \in [SubIds -> [Entities -> Knowledge]]
  BY <1>1, <1>3 DEF TypeOK, Knowledge
<1>7. TypeOK'  BY <1>1, <1>3, <1>4, <1>6 DEF TypeOK
<1>8. ExplicitSupportCovers'
  <2> SUFFICES ASSUME NEW j \in OpIds, ops[j] # Nil
               PROVE  LET q == subs'[ops[j].sub] IN
                        /\ q # Nil /\ q.manager = ops[j].manager
                        /\ ~q.implicit =>
                             /\ q.res.vertiport = ops[j].res.vertiport /\ q.res.zone = ops[j].res.zone
                             /\ q.res.start - ops[j].res.start <= MaxClockSkew
                             /\ ops[j].res.end <= q.res.end
    BY <1>3 DEF ExplicitSupportCovers
  <2>1. ops[j].sub \in SubIds  BY <1>1 DEF TypeOK, Op
  <2>2. CASE ops[j].sub = s
    <3>1. subs[s] # Nil /\ subs[s].manager = ops[j].manager
      BY <2>2 DEF IInv, ExplicitSupportCovers
    <3>2. ValidDependentOp(ops[j], new)  BY <1>3, <2>2 DEF GetDependentOps
    <3> QED  BY <1>3, <1>4, <1>5, <2>2, <3>1, <3>2 DEF ValidDependentOp
  <2>3. CASE ops[j].sub # s  BY <1>5, <2>1, <2>3 DEF IInv, ExplicitSupportCovers
  <2> QED  BY <2>2, <2>3
<1>9. ConflictsSeen'  BY <1>3 DEF IInv, ConflictsSeen
<1>10. KnowsWhatItAsked'
  <2> SUFFICES ASSUME NEW q \in SubIds, NEW e \in Entities, known'[q][e] # "nothing"
               PROVE  subs'[q] # Nil /\ ~subs'[q].implicit /\ AskedFor(subs'[q], e)
    BY DEF KnowsWhatItAsked, AskedFor
  <2>1. CASE q = s
    <3>1. e \in Answered(r, new, fo, fc)  BY <1>6, <2>1
    <3>2. (fo /\ e \in OpIds) \/ (fc /\ e \in ConstraintIds)
      BY <3>1 DEF Answered, SearchOps, SearchConstraints
    <3>3. AskedFor(row, e)  BY <3>2, IdsAssumption DEF AskedFor
    <3> QED  BY <1>4, <1>5, <2>1, <3>3
  <2>2. CASE q # s  BY <1>5, <1>6, <2>2 DEF IInv, KnowsWhatItAsked
  <2> QED  BY <2>1, <2>2
<1>11. SubscribersKnow'
  <2> SUFFICES ASSUME NEW q \in SubIds, NEW e \in Entities, subs'[q] # Nil, ~subs'[q].implicit,
                      AskedFor(subs'[q], e), RowOf(e) # Nil, Meet(subs'[q].res, RowOf(e).res)
               PROVE  known'[q][e] = "current"
    BY <1>3 DEF SubscribersKnow, AskedFor, RowOf
  <2>1. CASE q = s
    <3>1. AskedFor(row, e) /\ Meet(new, RowOf(e).res)  BY <1>5, <2>1
    <3>2. RowOf(e).res \in Reservation
      BY <1>1 DEF RowOf, TypeOK, Op, Constraint, Entities
    <3>3. CASE e \in OpIds
      <4>1. Found(ops[e], new)  BY <1>2, <3>1, <3>2, <3>3, MeetIsFound DEF RowOf
      <4>2. e \in Answered(r, new, fo, fc)  BY <3>1, <3>3, <4>1 DEF Answered, SearchOps, AskedFor
      <4> QED  BY <1>6, <2>1, <4>2
    <3>4. CASE e \notin OpIds
      <4>1. e \in ConstraintIds /\ RowOf(e) = constraints[e] /\ fc
        BY <3>1, <3>4 DEF Entities, RowOf, AskedFor
      <4>2. PICK t \in new.start .. new.end : t \in RowOf(e).res.start .. RowOf(e).res.end
        BY <3>1 DEF Meet
      <4>3. new.start <= t /\ t <= new.end  BY <1>2 DEF Reservation
      <4>4. RowOf(e).res.vertiport = r.vertiport /\ RowOf(e).res.zone = r.zone
        BY <1>2, <3>1 DEF Meet
      <4>5. Found(constraints[e], r)
        BY <1>1, <1>2, <3>2, <4>1, <4>2, <4>3, <4>4, MeetingIsFound
      <4>6. e \in Answered(r, new, fo, fc)  BY <4>1, <4>5 DEF Answered, SearchConstraints
      <4> QED  BY <1>6, <2>1, <4>6
    <3> QED  BY <3>3, <3>4
  <2>2. CASE q # s  BY <1>5, <1>6, <2>2 DEF IInv, SubscribersKnow
  <2> QED  BY <2>1, <2>2
<1> QED  BY <1>7, <1>8, <1>9, <1>10, <1>11 DEF IInv

LEMMA InvDeleteSubscription ==
  ASSUME IInv, NEW m \in Managers, NEW s \in SubIds, DeleteSubscription(m, s)
  PROVE  IInv'
<1>1. TypeOK  BY DEF IInv
<1>2. /\ GetDependentOps(s) = {}
      /\ subs' = [subs EXCEPT ![s] = Nil]
      /\ known' = [known EXCEPT ![s] = [e \in Entities |-> "nothing"]]
      /\ UNCHANGED <<now, vertiports, ops, constraints, aware>>
  BY DEF DeleteSubscription
<1>3. subs'[s] = Nil /\ \A q \in SubIds \ {s} : subs'[q] = subs[q]  BY <1>1, <1>2 DEF TypeOK
<1>4. /\ \A e \in Entities : known'[s][e] = "nothing"
      /\ \A q \in SubIds \ {s} : known'[q] = known[q]
      /\ known' \in [SubIds -> [Entities -> Knowledge]]
  BY <1>1, <1>2 DEF TypeOK, Knowledge
<1>5. TypeOK'  BY <1>1, <1>2, <1>4 DEF TypeOK
<1>6. ExplicitSupportCovers'
  <2>1. \A j \in OpIds : ops[j] # Nil => ops[j].sub \in SubIds \ {s}
    BY <1>1, <1>2 DEF TypeOK, Op, GetDependentOps
  <2> QED  BY <1>2, <1>3, <2>1 DEF IInv, ExplicitSupportCovers
<1>7. ConflictsSeen'  BY <1>2 DEF IInv, ConflictsSeen
<1>8. KnowsWhatItAsked'  BY <1>3, <1>4 DEF IInv, KnowsWhatItAsked, AskedFor
<1>9. SubscribersKnow'
  <2> SUFFICES ASSUME NEW q \in SubIds, NEW e \in Entities, subs'[q] # Nil, ~subs'[q].implicit,
                      AskedFor(subs'[q], e), RowOf(e) # Nil, Meet(subs'[q].res, RowOf(e).res)
               PROVE  known'[q][e] = "current"
    BY <1>2 DEF SubscribersKnow, AskedFor, RowOf
  <2>1. q # s  BY <1>3
  <2> QED  BY <1>3, <1>4, <2>1 DEF IInv, SubscribersKnow
<1> QED  BY <1>5, <1>6, <1>7, <1>8, <1>9 DEF IInv

\* A constraint is written or deleted.
LEMMA ConstraintWritten ==
  ASSUME IInv, NEW c \in ConstraintIds, NEW row \in Constraint \cup {Nil}, NEW news \in Knowledge,
         NEW r \in Reservation, constraints' = [constraints EXCEPT ![c] = row],
         aware' = AwareWithout({c}), known' = KnownAfter(c, news, NotifiedOfConstraints(r), {}),
         row # Nil => row.res = r /\ news = "current",
         UNCHANGED <<now, vertiports, ops, subs>>
  PROVE  IInv'
<1>1. TypeOK /\ c \in Entities /\ c \notin OpIds  BY IdsAssumption DEF IInv, Entities
<1>2. constraints'[c] = row /\ \A d \in ConstraintIds \ {c} : constraints'[d] = constraints[d]
  BY <1>1 DEF TypeOK
<1>3. /\ known' \in [SubIds -> [Entities -> Knowledge]]
      /\ \A q \in SubIds, e \in Entities :
           known'[q][e] = IF e = c /\ q \in NotifiedOfConstraints(r) THEN news
                          ELSE IF e = c /\ known[q][e] # "nothing" THEN "stale" ELSE known[q][e]
  BY <1>1, KnownAfterValue DEF TypeOK
<1>4. aware' \subseteq aware  BY DEF AwareWithout
<1>5. TypeOK'  BY <1>1, <1>3, <1>4 DEF TypeOK
<1>6. ExplicitSupportCovers'  BY DEF IInv, ExplicitSupportCovers
<1>7. ConflictsSeen'  BY <1>1 DEF IInv, ConflictsSeen, AwareWithout
<1>8. KnowsWhatItAsked'
  <2> SUFFICES ASSUME NEW q \in SubIds, NEW e \in Entities, known'[q][e] # "nothing"
               PROVE  subs[q] # Nil /\ ~subs[q].implicit /\ AskedFor(subs[q], e)
    BY DEF KnowsWhatItAsked, AskedFor
  <2>1. CASE e = c /\ q \in NotifiedOfConstraints(r)
    BY <1>1, <2>1 DEF NotifiedOfConstraints, SearchSubs, Found, AskedFor
  <2>2. CASE ~(e = c /\ q \in NotifiedOfConstraints(r))
    <3>1. known[q][e] # "nothing"  BY <1>3, <2>2
    <3> QED  BY <3>1 DEF IInv, KnowsWhatItAsked
  <2> QED  BY <2>1, <2>2
<1>9. SubscribersKnow'
  <2> SUFFICES ASSUME NEW q \in SubIds, NEW e \in Entities, subs[q] # Nil, ~subs[q].implicit,
                      AskedFor(subs[q], e), RowOf(e)' # Nil, Meet(subs[q].res, RowOf(e)'.res)
               PROVE  known'[q][e] = "current"
    BY DEF SubscribersKnow, AskedFor
  <2>1. CASE e = c
    <3>1. RowOf(e)' = row  BY <1>1, <1>2, <2>1 DEF RowOf
    <3>2. subs[q].notifyConstraints /\ Meet(subs[q].res, r) /\ news = "current"
      BY <1>1, <2>1, <3>1 DEF AskedFor
    <3>3. subs[q].res \in Reservation  BY <1>1 DEF TypeOK, Sub
    <3>4. Found(subs[q], r)  BY <3>2, <3>3, MeetIsFound
    <3>5. q \in NotifiedOfConstraints(r)  BY <3>2, <3>4 DEF NotifiedOfConstraints, SearchSubs
    <3> QED  BY <1>3, <2>1, <3>2, <3>5
  <2>2. CASE e # c
    <3>1. RowOf(e)' = RowOf(e)  BY <1>2, <2>2 DEF RowOf, Entities
    <3>2. known[q][e] = "current"  BY <3>1 DEF IInv, SubscribersKnow
    <3> QED  BY <1>3, <2>2, <3>2
  <2> QED  BY <2>1, <2>2
<1> QED  BY <1>5, <1>6, <1>7, <1>8, <1>9 DEF IInv

LEMMA InvConstraintRequest ==
  ASSUME IInv, NEW m \in Managers, NEW c \in ConstraintIds, ConstraintRequest(m, c)
  PROVE  IInv'
<1>1. ASSUME NEW r \in ConstraintReservations, PutConstraint(m, c, r)  PROVE IInv'
  <2> DEFINE row == [manager |-> m, res |-> r]
             news == "current"
  <2>1. r \in Reservation /\ news \in Knowledge  BY RequestsAssumption DEF Knowledge
  <2>2. row \in Constraint \cup {Nil} /\ (row # Nil => row.res = r /\ news = "current")
    BY <2>1 DEF Constraint
  <2>3. /\ constraints' = [constraints EXCEPT ![c] = row]
        /\ aware' = AwareWithout({c}) /\ known' = KnownAfter(c, news, NotifiedOfConstraints(r), {})
        /\ UNCHANGED <<now, vertiports, ops, subs>>
    BY <1>1 DEF PutConstraint
  <2> HIDE DEF row, news
  <2> QED  BY <2>1, <2>2, <2>3, ConstraintWritten
<1>2. CASE DeleteConstraint(m, c)
  <2> DEFINE row == Nil
             news == "nothing"
             r == constraints[c].res
  <2>1. r \in Reservation /\ news \in Knowledge
    BY <1>2 DEF DeleteConstraint, IInv, TypeOK, Constraint, Knowledge
  <2>2. row \in Constraint \cup {Nil} /\ (row # Nil => row.res = r /\ news = "current")  OBVIOUS
  <2>3. /\ constraints' = [constraints EXCEPT ![c] = row]
        /\ aware' = AwareWithout({c}) /\ known' = KnownAfter(c, news, NotifiedOfConstraints(r), {})
        /\ UNCHANGED <<now, vertiports, ops, subs>>
    BY <1>2 DEF DeleteConstraint
  <2> HIDE DEF row, news, r
  <2> QED  BY <2>1, <2>2, <2>3, ConstraintWritten
<1> QED  BY <1>1, <1>2 DEF ConstraintRequest

LEMMA InvInit == Init => IInv
<1> SUFFICES ASSUME Init PROVE IInv  OBVIOUS
<1>1. TypeOK  BY DEF Init, TypeOK, Knowledge
<1>2. ExplicitSupportCovers /\ ConflictsSeen  BY DEF Init, ExplicitSupportCovers, ConflictsSeen
<1>3. KnowsWhatItAsked /\ SubscribersKnow  BY DEF Init, KnowsWhatItAsked, SubscribersKnow
<1> QED  BY <1>1, <1>2, <1>3 DEF IInv

\* Steps that leave the reservations alone.
LEMMA InvElsewhere ==
  ASSUME IInv, UNCHANGED <<ops, subs, constraints, aware, known>>,
         now' \in Nat, vertiports' \in [Vertiports -> Nat \cup {Nil}]
  PROVE  IInv'
<1>1. TypeOK'  BY DEF IInv, TypeOK
<1>2. ExplicitSupportCovers' /\ ConflictsSeen'  BY DEF IInv, ExplicitSupportCovers, ConflictsSeen
<1>3. KnowsWhatItAsked'  BY DEF IInv, KnowsWhatItAsked
<1>4. SubscribersKnow'  BY DEF IInv, SubscribersKnow, RowOf
<1> QED  BY <1>1, <1>2, <1>3, <1>4 DEF IInv

\* Every step keeps the invariant.
LEMMA InvNext == IInv /\ [Next]_vars => IInv'
<1> SUFFICES ASSUME IInv, [Next]_vars PROVE IInv'  OBVIOUS
<1>1. now \in Nat /\ vertiports \in [Vertiports -> Nat \cup {Nil}]  BY DEF IInv, TypeOK
<1>2. CASE Tick
  <2>1. now' \in Nat  BY <1>1, <1>2 DEF Tick
  <2> QED  BY <1>1, <1>2, <2>1, InvElsewhere DEF Tick, tables
<1>3. ASSUME NEW v \in Vertiports, NEW places \in Places, PutVertiport(v, places)  PROVE IInv'
  <2>1. places \in Nat  BY RequestsAssumption
  <2>2. vertiports' \in [Vertiports -> Nat \cup {Nil}]  BY <1>1, <1>3, <2>1 DEF PutVertiport
  <2> QED  BY <1>1, <1>3, <2>2, InvElsewhere DEF PutVertiport
<1>4. ASSUME NEW v \in Vertiports, DeleteVertiport(v)  PROVE IInv'
  <2>1. vertiports' \in [Vertiports -> Nat \cup {Nil}]  BY <1>1, <1>4 DEF DeleteVertiport
  <2> QED  BY <1>1, <1>4, <2>1, InvElsewhere DEF DeleteVertiport
<1>5. ASSUME NEW m \in Managers, NEW i \in OpIds, PutOp(m, i) \/ DeleteOp(m, i)  PROVE IInv'
  BY <1>5, InvPutOp, InvDeleteOp
<1>6. ASSUME NEW m \in Managers, NEW s \in SubIds, SubscriptionRequest(m, s)  PROVE IInv'
  BY <1>6, InvPutSubscription, InvDeleteSubscription DEF SubscriptionRequest
<1>7. ASSUME NEW m \in Managers, NEW c \in ConstraintIds, ConstraintRequest(m, c)  PROVE IInv'
  BY <1>7, InvConstraintRequest
<1>8. CASE UNCHANGED vars  BY <1>1, <1>8, InvElsewhere DEF vars
<1> QED  BY <1>2, <1>3, <1>4, <1>5, <1>6, <1>7, <1>8 DEF Next

-----------------------------------------------------------------------------
(* The theorems *)

\* Every table of reservations is well-formed in every reachable state.
THEOREM VRPTypeOK == Spec => []TypeOK
<1>1. IInv => TypeOK  BY DEF IInv
<1> QED  BY <1>1, InvInit, InvNext, PTL DEF Spec

\* An explicit subscription covers every operational intent that it supports.
THEOREM VRPExplicitSupportCovers == Spec => []ExplicitSupportCovers
<1>1. IInv => ExplicitSupportCovers  BY DEF IInv
<1> QED  BY <1>1, InvInit, InvNext, PTL DEF Spec

\* Of two operational intents that reserve one zone at one time, one was
\* written with a key that holds the other's current OVN.
THEOREM VRPConflictsSeen == Spec => []ConflictsSeen
<1>1. IInv => ConflictsSeen  BY DEF IInv
<1> QED  BY <1>1, InvInit, InvNext, PTL DEF Spec

\* The USS of an explicit subscription knows what it asked for.
THEOREM VRPSubscribersKnow == Spec => []SubscribersKnow
<1>1. IInv => SubscribersKnow  BY DEF IInv
<1> QED  BY <1>1, InvInit, InvNext, PTL DEF Spec

\* What such a USS knows of an entity goes stale only when the entity moves
\* out of the reach of the subscription.
LEMMA StaleStep ==
  ASSUME IInv, [Next]_vars, NEW s \in SubIds, NEW e \in Entities,
         known[s][e] = "current", known'[s][e] = "stale",
         subs[s] # Nil, Meet(subs[s].res, RowOf(e).res)
  PROVE  RowOf(e)' # Nil /\ ~Meet(subs[s].res, RowOf(e)'.res)
<1>1. TypeOK /\ subs[s].res \in Reservation  BY DEF IInv, TypeOK, Sub
<1>2. ~subs[s].implicit /\ AskedFor(subs[s], e)  BY DEF IInv, KnowsWhatItAsked
<1>3. ASSUME NEW i \in Entities, NEW news \in {"current", "nothing"}, NEW N,
             known' = KnownAfter(i, news, N, {})
      PROVE  e = i /\ s \notin N
  <2>1. known'[s][e] = IF e = i /\ s \in N THEN news
                       ELSE IF e \in {i} \cup {} /\ known[s][e] # "nothing" THEN "stale" ELSE known[s][e]
    BY <1>1, <1>3, KnownAfterValue DEF TypeOK, Knowledge
  <2> QED  BY <1>3, <2>1
<1>4. ASSUME NEW r \in Reservation, Meet(subs[s].res, r)  PROVE s \in SearchSubs(r)
  BY <1>1, <1>4, MeetIsFound DEF SearchSubs
<1>5. ASSUME NEW m \in Managers, NEW i \in OpIds, PutOp(m, i)
      PROVE  RowOf(e)' # Nil /\ ~Meet(subs[s].res, RowOf(e)'.res)
  <2>1. PICK st \in RequestStates, r \in OpReservations, q \in SubIds, sub \in Sub :
          StoreOp(m, i, st, r, q, sub) /\ subs' \in [SubIds -> Sub \cup {Nil}]
    BY <1>1, <1>5, PutOpStep
  <2>2. known' = KnownAfter(i, "current", NotifiedOfOps(r), {}) /\ i \in Entities /\ r \in Reservation
    BY <2>1, RequestsAssumption DEF StoreOp, Entities
  <2>3. e = i /\ s \notin NotifiedOfOps(r)  BY <1>3, <2>2
  <2>4. ops'[i].res = r /\ ops'[i] # Nil
    <3>1. ops'[i] = [manager |-> m, state |-> st, res |-> r, sub |-> q] /\ ops'[i] \in Op
      BY <1>1, <2>1, StoreOpType
    <3> QED  BY <3>1, NilIsNoRow
  <2>5. subs[s].notifyOps  BY <1>2, <2>3 DEF AskedFor
  <2>6. s \notin SearchSubs(r)  BY <1>2, <2>3, <2>5 DEF NotifiedOfOps
  <2> QED  BY <1>4, <2>2, <2>3, <2>4, <2>6 DEF RowOf
<1>6. ASSUME NEW m \in Managers, NEW i \in OpIds, DeleteOp(m, i)  PROVE FALSE
  <2>1. ops[i] # Nil /\ known' = KnownAfter(i, "nothing", NotifiedOfOps(ops[i].res), {})
    BY <1>1, <1>6, DeleteOpStep
  <2>2. e = i /\ s \notin NotifiedOfOps(ops[i].res)  BY <1>3, <2>1 DEF Entities
  <2>3. ops[i].res \in Reservation /\ Meet(subs[s].res, ops[i].res) /\ subs[s].notifyOps
    BY <1>1, <1>2, <2>1, <2>2 DEF TypeOK, Op, RowOf, AskedFor
  <2> QED  BY <1>2, <1>4, <2>2, <2>3 DEF NotifiedOfOps
<1>7. ASSUME NEW m \in Managers, NEW c \in ConstraintIds, NEW r \in ConstraintReservations, PutConstraint(m, c, r)
      PROVE  RowOf(e)' # Nil /\ ~Meet(subs[s].res, RowOf(e)'.res)
  <2>1. /\ known' = KnownAfter(c, "current", NotifiedOfConstraints(r), {})
        /\ constraints' = [constraints EXCEPT ![c] = [manager |-> m, res |-> r]]
        /\ c \in Entities /\ r \in Reservation
    BY <1>7, RequestsAssumption DEF PutConstraint, Entities
  <2>2. e = c /\ s \notin NotifiedOfConstraints(r)  BY <1>3, <2>1
  <2>3. c \notin OpIds  BY IdsAssumption
  <2>4. constraints'[c] = [manager |-> m, res |-> r]  BY <1>1, <2>1 DEF TypeOK
  <2>5. constraints'[c] \in Constraint  BY <2>1, <2>4 DEF Constraint
  <2>6. constraints'[c] # Nil /\ constraints'[c].res = r  BY <2>4, <2>5, NilIsNoRow
  <2>7. subs[s].notifyConstraints  BY <1>2, <2>2, <2>3 DEF AskedFor
  <2>8. s \notin SearchSubs(r)  BY <1>2, <2>2, <2>7 DEF NotifiedOfConstraints
  <2> QED  BY <1>4, <2>1, <2>2, <2>3, <2>6, <2>8 DEF RowOf
<1>8. ASSUME NEW m \in Managers, NEW c \in ConstraintIds, DeleteConstraint(m, c)  PROVE FALSE
  <2>1. constraints[c] # Nil /\ known' = KnownAfter(c, "nothing", NotifiedOfConstraints(constraints[c].res), {})
    BY <1>8 DEF DeleteConstraint
  <2>2. e = c /\ s \notin NotifiedOfConstraints(constraints[c].res) /\ c \notin OpIds
    BY <1>3, <2>1, IdsAssumption DEF Entities
  <2>3. constraints[c].res \in Reservation /\ Meet(subs[s].res, constraints[c].res) /\ subs[s].notifyConstraints
    BY <1>1, <1>2, <2>1, <2>2 DEF TypeOK, Constraint, RowOf, AskedFor
  <2> QED  BY <1>2, <1>4, <2>2, <2>3 DEF NotifiedOfConstraints
<1>9. ASSUME NEW m \in Managers, NEW q \in SubIds, NEW r \in SubReservations,
             NEW fo \in OpFlags, NEW fc \in ConstraintFlags, PutSubscription(m, q, r, fo, fc)
      PROVE  FALSE
  <2> DEFINE f == [d \in Entities |->
               IF d \in Answered(r, Stored(r, subs[q]), fo, fc) THEN "current" ELSE "nothing"]
  <2>1. known' = [known EXCEPT ![q] = f]  BY <1>9 DEF PutSubscription
  <2>2. f[e] # "stale"  OBVIOUS
  <2> HIDE DEF f
  <2>3. known'[s][e] = f[e] \/ known'[s][e] = known[s][e]  BY <1>1, <2>1 DEF TypeOK
  <2> QED  BY <2>2, <2>3
<1>10. ASSUME NEW m \in Managers, NEW q \in SubIds, DeleteSubscription(m, q)  PROVE FALSE
  <2>1. known' = [known EXCEPT ![q] = [d \in Entities |-> "nothing"]]
    BY <1>10 DEF DeleteSubscription
  <2>2. known'[s][e] = "nothing" \/ known'[s][e] = known[s][e]  BY <1>1, <2>1 DEF TypeOK
  <2> QED  BY <2>2
<1>11. ASSUME UNCHANGED known  PROVE FALSE  BY <1>11
<1>12. ASSUME NEW v \in Vertiports, (\E places \in Places : PutVertiport(v, places)) \/ DeleteVertiport(v)
       PROVE  FALSE
  BY <1>11, <1>12 DEF PutVertiport, DeleteVertiport
<1>13. ~Tick /\ ~UNCHANGED vars  BY <1>11 DEF Tick, vars
<1> QED
  BY <1>5, <1>6, <1>7, <1>8, <1>9, <1>10, <1>12, <1>13
  DEF Next, SubscriptionRequest, ConstraintRequest

\* What the USS of an explicit subscription knows of an entity goes stale only
\* when the entity moves out of the subscription's reach.
THEOREM VRPStaleOnlyByDeparture == Spec => StaleOnlyByDeparture
<1> DEFINE Departure ==
      \A s \in SubIds, e \in Entities :
        /\ known[s][e] = "current" /\ known'[s][e] = "stale"
        /\ subs[s] # Nil /\ Meet(subs[s].res, RowOf(e).res)
        => RowOf(e)' # Nil /\ ~Meet(subs[s].res, RowOf(e)'.res)
<1>1. IInv /\ [Next]_vars => [Departure]_vars  BY StaleStep
<1> QED  BY <1>1, InvInit, InvNext, PTL DEF Spec, StaleOnlyByDeparture

-----------------------------------------------------------------------------
(* The schedule queries *)

\* No stored reservation of an operational intent or a constraint is empty.
PeriodsNonEmpty ==
  /\ \A i \in OpIds : ops[i] # Nil => ops[i].res.start < ops[i].res.end
  /\ \A c \in ConstraintIds : constraints[c] # Nil => constraints[c].res.start < constraints[c].res.end

LEMMA PeriodsInit == Init => PeriodsNonEmpty
  BY DEF Init, PeriodsNonEmpty

LEMMA PeriodsNext == IInv /\ PeriodsNonEmpty /\ [Next]_vars => PeriodsNonEmpty'
<1> SUFFICES ASSUME IInv, PeriodsNonEmpty, [Next]_vars PROVE PeriodsNonEmpty'  OBVIOUS
<1>1. TypeOK  BY DEF IInv
<1>2. ASSUME NEW m \in Managers, NEW i \in OpIds, PutOp(m, i)  PROVE PeriodsNonEmpty'
  <2>1. PICK st \in RequestStates, r \in OpReservations, s \in SubIds :
          /\ MayPutOp(m, i, st, r)
          /\ \/ \E fc \in ConstraintFlags : PutOpWithImplicitSub(m, i, st, r, s, fc)
             \/ PutOpWithCoveringSub(m, i, st, r, s)
             \/ PutOpExtendingSub(m, i, st, r, s)
    BY <1>2 DEF PutOp
  <2>2. /\ ops' = [ops EXCEPT ![i] = [manager |-> m, state |-> st, res |-> r, sub |-> s]]
        /\ UNCHANGED constraints
    BY <2>1 DEF PutOpWithImplicitSub, PutOpWithCoveringSub, PutOpExtendingSub, StoreOp
  <2>3. r.start < r.end  BY <2>1 DEF MayPutOp
  <2>4. \A j \in OpIds : ops'[j] = IF j = i THEN [manager |-> m, state |-> st, res |-> r, sub |-> s] ELSE ops[j]
    BY <1>1, <2>2 DEF TypeOK
  <2> QED  BY <2>2, <2>3, <2>4 DEF PeriodsNonEmpty
<1>3. ASSUME NEW m \in Managers, NEW i \in OpIds, DeleteOp(m, i)  PROVE PeriodsNonEmpty'
  <2>1. UNCHANGED constraints /\ \A j \in OpIds : ops'[j] = Nil \/ ops'[j] = ops[j]
    BY <1>3 DEF DeleteOp
  <2> QED  BY <2>1 DEF PeriodsNonEmpty
<1>4. ASSUME NEW m \in Managers, NEW c \in ConstraintIds, ConstraintRequest(m, c)  PROVE PeriodsNonEmpty'
  <2>1. ASSUME NEW r \in ConstraintReservations, PutConstraint(m, c, r)  PROVE PeriodsNonEmpty'
    <3>1. /\ r.start < r.end /\ UNCHANGED ops
          /\ constraints' = [constraints EXCEPT ![c] = [manager |-> m, res |-> r]]
      BY <2>1 DEF PutConstraint
    <3>2. \A d \in ConstraintIds : constraints'[d] = IF d = c THEN [manager |-> m, res |-> r] ELSE constraints[d]
      BY <1>1, <3>1 DEF TypeOK
    <3> QED  BY <3>1, <3>2 DEF PeriodsNonEmpty
  <2>2. ASSUME DeleteConstraint(m, c)  PROVE PeriodsNonEmpty'
    <3>1. UNCHANGED ops /\ \A d \in ConstraintIds : constraints'[d] = Nil \/ constraints'[d] = constraints[d]
      BY <1>1, <2>2 DEF DeleteConstraint, TypeOK
    <3> QED  BY <3>1 DEF PeriodsNonEmpty
  <2> QED  BY <1>4, <2>1, <2>2 DEF ConstraintRequest
<1>5. ASSUME UNCHANGED <<ops, constraints>>  PROVE PeriodsNonEmpty'
  BY <1>5 DEF PeriodsNonEmpty
<1>6. ASSUME NEW m \in Managers, NEW s \in SubIds, SubscriptionRequest(m, s)  PROVE PeriodsNonEmpty'
  BY <1>5, <1>6 DEF SubscriptionRequest, PutSubscription, DeleteSubscription
<1>7. ASSUME NEW v \in Vertiports, (\E places \in Places : PutVertiport(v, places)) \/ DeleteVertiport(v)
      PROVE  PeriodsNonEmpty'
  BY <1>5, <1>7 DEF PutVertiport, DeleteVertiport
<1>8. CASE Tick  BY <1>5, <1>8 DEF Tick, tables
<1>9. CASE UNCHANGED vars  BY <1>5, <1>9 DEF vars
<1> QED  BY <1>2, <1>3, <1>4, <1>6, <1>7, <1>8, <1>9 DEF Next

\* The search of a schedule query.
Query(v, zone, w) == [vertiport |-> v, zone |-> zone, start |-> w.from, end |-> w.to]

\* What is reserved in a zone, and what of it the query of a window finds:
\* everything that shares an instant with the window.
LEMMA QueryFinds ==
  ASSUME TypeOK, PeriodsNonEmpty, NEW v \in Vertiports, NEW zone \in {FATO, ParkingStand},
         NEW w \in Period, NEW e \in Entities
  PROVE  /\ RowOf(e) # Nil => RowOf(e).res \in Reservation /\ PeriodOf(e) \in NonEmpty
         /\ Found(RowOf(e), Query(v, zone, w)) => e \in Reserving(v, zone)
         /\ \A t \in Int : e \in Reserving(v, zone) /\ In(t, w) /\ In(t, PeriodOf(e))
                             => Found(RowOf(e), Query(v, zone, w))
<1>1. ASSUME RowOf(e) # Nil
      PROVE  RowOf(e).res \in Reservation /\ RowOf(e).res.start < RowOf(e).res.end
  BY <1>1 DEF TypeOK, RowOf, Entities, Op, Constraint, PeriodsNonEmpty
<1>2. PeriodOf(e) = [from |-> RowOf(e).res.start, to |-> RowOf(e).res.end]  BY DEF PeriodOf, RowOf
<1>3. RowOf(e) # Nil => PeriodOf(e) \in NonEmpty
  BY <1>1, <1>2 DEF NonEmpty, Period, Reservation
<1>4. Found(RowOf(e), Query(v, zone, w)) => e \in Reserving(v, zone)
  BY DEF Found, Query, Reserving
<1>5. ASSUME NEW t \in Int, e \in Reserving(v, zone), In(t, w), In(t, PeriodOf(e))
      PROVE  Found(RowOf(e), Query(v, zone, w))
  <2> DEFINE row == RowOf(e)
             r == Query(v, zone, w)
  <2>1. /\ row # Nil /\ row.res.vertiport = r.vertiport /\ row.res.zone = r.zone
    BY <1>5 DEF Reserving, Query
  <2>2. row.res \in Reservation  BY <1>1, <2>1
  <2>3. row.res.start \in Int /\ row.res.end \in Int /\ w.from \in Int /\ w.to \in Int
    BY <2>2 DEF Reservation, Period
  <2>4. r.start \in OptInt /\ r.end \in OptInt /\ r.start <= t /\ t <= r.end
    BY <1>5, <2>3 DEF OptInt, Query, In
  <2>5. t \in row.res.start .. row.res.end  BY <1>2, <1>5, <2>3 DEF In
  <2> HIDE DEF row, r
  <2>6. Found(row, r)  BY <2>1, <2>2, <2>4, <2>5, MeetingIsFound
  <2> QED  BY <2>6 DEF row, r
<1> QED  BY <1>1, <1>3, <1>4, <1>5

\* A query's list of busy periods: those of the entities it finds, each once.
Lists(busy, n, order, v, zone, w) ==
  /\ busy \in [1 .. n -> NonEmpty] /\ order \in [1 .. n -> Entities]
  /\ \A k \in 1 .. n : busy[k] = PeriodOf(order[k]) /\ RowOf(order[k]) # Nil
  /\ \A h, k \in 1 .. n : h # k => order[h] # order[k]
  /\ \A e \in Entities : (\E k \in 1 .. n : order[k] = e) <=> Found(RowOf(e), Query(v, zone, w))

LEMMA BusyPeriodsListed ==
  ASSUME TypeOK, PeriodsNonEmpty, NEW v \in Vertiports, NEW zone \in {FATO, ParkingStand},
         NEW w \in Period, NEW busy \in BusyPeriods(v, zone, w)
  PROVE  \E n \in Nat : \E order : Lists(busy, n, order, v, zone, w)
<1> DEFINE r == Query(v, zone, w)
           C == SearchConstraints(r)
           O == SearchOps(r)
<1>1. PICK x \in SetToSeqs(C), y \in SetToSeqs(O) :
        busy = [k \in DOMAIN (x \o y) |-> PeriodOf((x \o y)[k])]
  BY DEF BusyPeriods, Query
<1>2. IsFiniteSet(C) /\ IsFiniteSet(O)
  BY IdsAssumption, FS_Subset DEF SearchConstraints, SearchOps
<1>3. C \subseteq ConstraintIds /\ O \subseteq OpIds /\ C \cap O = {}
  BY IdsAssumption DEF SearchConstraints, SearchOps
<1> DEFINE a == Cardinality(C)
           b == Cardinality(O)
           order == x \o y
<1>4. /\ a \in Nat /\ x \in [1 .. a -> C] /\ Len(x) = a
      /\ \A h, k \in 1 .. a : h # k => x[h] # x[k]
      /\ \A e \in C : \E k \in 1 .. a : x[k] = e
  <2> HIDE DEF C
  <2> QED  BY <1>2, OrderOfSet
<1>5. /\ b \in Nat /\ y \in [1 .. b -> O] /\ Len(y) = b
      /\ \A h, k \in 1 .. b : h # k => y[h] # y[k]
      /\ \A e \in O : \E k \in 1 .. b : y[k] = e
  <2> HIDE DEF O
  <2> QED  BY <1>2, OrderOfSet
<1> HIDE DEF a, b
<1>6. /\ order \in [1 .. (a + b) -> C \cup O]
      /\ \A k \in 1 .. (a + b) : order[k] = IF k <= a THEN x[k] ELSE y[k - a]
  <2>1. x \in Seq(C \cup O) /\ y \in Seq(C \cup O)
    <3>1. x \in [1 .. a -> C \cup O] /\ y \in [1 .. b -> C \cup O]  BY <1>4, <1>5
    <3> QED  BY <1>4, <1>5, <3>1, SeqDef
  <2>2. order \in Seq(C \cup O) /\ Len(order) = a + b
    <3> DEFINE D == C \cup O
    <3> HIDE DEF D
    <3>1. x \in Seq(D) /\ y \in Seq(D)  BY <2>1 DEF D
    <3>2. x \o y \in Seq(D) /\ Len(x \o y) = Len(x) + Len(y)  BY <3>1, ConcatProperties
    <3> QED  BY <1>4, <1>5, <3>2 DEF D
  <2>3. order \in [1 .. (a + b) -> C \cup O]  BY <2>2, LenProperties
  <2> QED  BY <1>4, <1>5, <2>1, <2>3, ConcatProperties
<1> HIDE DEF order
<1>7. \A k \in 1 .. (a + b) : (k <= a => k \in 1 .. a) /\ (~(k <= a) => k - a \in 1 .. b)
  BY <1>4, <1>5
<1>8. \A k \in 1 .. (a + b) : order[k] \in C \cup O
  BY <1>6
<1>9. ASSUME NEW h \in 1 .. (a + b), NEW k \in 1 .. (a + b), h # k  PROVE order[h] # order[k]
  <2>1. CASE h <= a /\ k <= a  BY <1>4, <1>6, <1>7, <1>9, <2>1
  <2>2. CASE ~(h <= a) /\ ~(k <= a)
    <3>1. h - a # k - a /\ h - a \in 1 .. b /\ k - a \in 1 .. b  BY <1>4, <1>7, <1>9, <2>2
    <3> QED  BY <1>5, <1>6, <2>2, <3>1
  <2>3. CASE (h <= a) # (k <= a)
    <3>1. (order[h] \in C /\ order[k] \in O) \/ (order[h] \in O /\ order[k] \in C)
      BY <1>4, <1>5, <1>6, <1>7, <2>3
    <3> QED  BY <1>3, <3>1
  <2> QED  BY <2>1, <2>2, <2>3
<1>10. ASSUME NEW e \in C \cup O  PROVE \E k \in 1 .. (a + b) : order[k] = e
  <2>1. CASE e \in C
    <3>1. PICK k \in 1 .. a : x[k] = e  BY <1>4, <2>1
    <3>2. k \in 1 .. (a + b) /\ order[k] = e  BY <1>4, <1>5, <1>6, <3>1
    <3> QED  BY <3>2
  <2>2. CASE e \in O
    <3>1. PICK k \in 1 .. b : y[k] = e  BY <1>5, <2>2
    <3>2. k + a \in 1 .. (a + b) /\ ~(k + a <= a) /\ (k + a) - a = k  BY <1>4, <1>5
    <3>3. order[k + a] = e  BY <1>6, <3>1, <3>2
    <3> QED  BY <3>2, <3>3
  <2> QED  BY <2>1, <2>2
<1>11. \A e \in Entities : e \in C \cup O <=> Found(RowOf(e), r)
  BY IdsAssumption DEF SearchConstraints, SearchOps, RowOf, Entities
<1>12. C \cup O \subseteq Entities  BY <1>3 DEF Entities
<1> DEFINE n == a + b
<1>13. n \in Nat /\ busy = [k \in 1 .. n |-> PeriodOf(order[k])]
  BY <1>1, <1>4, <1>5, <1>6 DEF order
<1>14. order \in [1 .. n -> Entities]
  BY <1>6, <1>12
<1>15. \A k \in 1 .. n : RowOf(order[k]) # Nil
  BY <1>8, <1>11, <1>12 DEF Found
<1>16. \A k \in 1 .. n : PeriodOf(order[k]) \in NonEmpty
  BY <1>14, <1>15, QueryFinds
<1> HIDE DEF n, C, O, r
<1>17. busy \in [1 .. n -> NonEmpty] /\ \A k \in 1 .. n : busy[k] = PeriodOf(order[k])
  BY <1>13, <1>16
<1>18. \A e \in Entities : (\E k \in 1 .. n : order[k] = e) <=> Found(RowOf(e), r)
  BY <1>8, <1>10, <1>11 DEF n
<1>19. Lists(busy, n, order, v, zone, w)
  BY <1>9, <1>14, <1>15, <1>17, <1>18 DEF Lists, n, r
<1> QED  BY <1>13, <1>19

\* The set A of places of a list and the set B of entities are the same.
Corresponds(order, n, A, B) ==
  /\ \A k \in 1 .. n : k \in A <=> order[k] \in B
  /\ \A e \in B : \E k \in 1 .. n : order[k] = e

\* There are then as many of the ones as of the others.
LEMMA ListCounts ==
  ASSUME NEW n \in Nat, NEW order, \A h, k \in 1 .. n : h # k => order[h] # order[k],
         NEW A \in SUBSET (1 .. n), NEW B, Corresponds(order, n, A, B)
  PROVE  Cardinality(A) = Cardinality(B)
<1>1. IsFiniteSet(A)
  <2>1. IsFiniteSet(1 .. n)  BY FS_Interval
  <2> QED  BY <2>1, FS_Subset
<1> DEFINE f == [k \in A |-> order[k]]
<1>2. f \in [A -> B]  BY DEF Corresponds
<1>3. \A h, k \in A : f[h] = f[k] => h = k  OBVIOUS
<1>4. \A e \in B : \E k \in A : f[k] = e  BY DEF Corresponds
<1>5. f \in Bijection(A, B)  BY <1>2, <1>3, <1>4 DEF Bijection, Injection, Surjection, IsInjective
<1>6. ExistsBijection(A, B)  BY <1>5 DEF ExistsBijection
<1> QED  BY <1>1, <1>6, FS_Bijection

\* Of the busy periods of a query, the instants of the window are those that
\* some entity reserves.
LEMMA FreeTimes ==
  ASSUME TypeOK, PeriodsNonEmpty, NEW v \in Vertiports, NEW w \in Windows,
         NEW answer \in FATOAvailableTimes(v, w), answer.ok
  PROVE  /\ \A p \in answer.free : p = w \/ (w.from <= p.from /\ p.from < p.to /\ p.to <= w.to)
         /\ \A t \in w.from .. (w.to - 1) :
              InSome(t, answer.free) <=> ~\E e \in Reserving(v, FATO) : In(t, PeriodOf(e))
<1>1. w \in Period  BY RequestsAssumption
<1>2. PICK busy \in BusyPeriods(v, FATO, w) : answer = ComputeFreeTimePeriods(busy, w)
  BY DEF FATOAvailableTimes
<1>3. PICK n \in Nat : \E order : Lists(busy, n, order, v, FATO, w)
  BY <1>1, BusyPeriodsListed
<1>4. PICK order : Lists(busy, n, order, v, FATO, w)  BY <1>3
<1>5. /\ \A p \in answer.free : p = w \/ (w.from <= p.from /\ p.from < p.to /\ p.to <= w.to)
      /\ \A t \in Int : InSome(t, answer.free) <=> In(t, w) /\ ~\E k \in 1 .. n : In(t, busy[k])
  <2>1. busy \in [1 .. n -> NonEmpty]  BY <1>4 DEF Lists
  <2> QED  BY <1>1, <1>2, <2>1, ComputedFreeTimesExact
<1>6. ASSUME NEW t \in w.from .. (w.to - 1)
      PROVE  InSome(t, answer.free) <=> ~\E e \in Reserving(v, FATO) : In(t, PeriodOf(e))
  <2>1. t \in Int /\ In(t, w)  BY <1>1 DEF In, Period
  <2>2. ASSUME NEW k \in 1 .. n, In(t, busy[k])
        PROVE  \E e \in Reserving(v, FATO) : In(t, PeriodOf(e))
    <3>1. /\ order[k] \in Entities /\ busy[k] = PeriodOf(order[k])
          /\ Found(RowOf(order[k]), Query(v, FATO, w))
      BY <1>4 DEF Lists
    <3>2. order[k] \in Reserving(v, FATO)  BY <1>1, <3>1, QueryFinds
    <3> QED  BY <2>2, <3>1, <3>2
  <2>3. ASSUME NEW e \in Reserving(v, FATO), In(t, PeriodOf(e))
        PROVE  \E k \in 1 .. n : In(t, busy[k])
    <3>1. e \in Entities  BY DEF Reserving
    <3>2. Found(RowOf(e), Query(v, FATO, w))  BY <1>1, <2>1, <2>3, <3>1, QueryFinds
    <3>3. PICK k \in 1 .. n : order[k] = e  BY <1>4, <3>1, <3>2 DEF Lists
    <3> QED  BY <1>4, <2>3, <3>3 DEF Lists
  <2> QED  BY <1>5, <2>1, <2>2, <2>3
<1> QED  BY <1>5, <1>6

\* When the FATO query answers, what it calls free is what nobody reserves.
THEOREM VRPFreeTimesExact == Spec => []FreeTimesExact
<1>1. TypeOK /\ PeriodsNonEmpty => FreeTimesExact  BY FreeTimes DEF FreeTimesExact
<1>2. IInv => TypeOK  BY DEF IInv
<1> QED  BY <1>1, <1>2, InvInit, InvNext, PeriodsInit, PeriodsNext, PTL DEF Spec

\* The number of used places against the reservations of the parking stand.
LEMMA ParkingCount ==
  ASSUME TypeOK, PeriodsNonEmpty, NEW v \in Vertiports, NEW w \in Windows,
         NEW used \in UsedParkingPlaces(v, w)
  PROVE  LET reserving == Reserving(v, ParkingStand) IN
         /\ \A t \in w.from .. (w.to - 1) :
              Cardinality({e \in reserving : In(t, PeriodOf(e))}) <= used
         /\ w.from < w.to =>
              \E t \in w.from .. w.to :
                used <= Cardinality({e \in reserving :
                                      /\ \E u \in w.from .. (w.to - 1) : In(u, PeriodOf(e))
                                      /\ PeriodOf(e).from <= t /\ t <= PeriodOf(e).to})
<1> DEFINE reserving == Reserving(v, ParkingStand)
<1>1. w \in Period /\ w.from \in Int /\ w.to \in Int  BY RequestsAssumption DEF Period
<1>2. PICK busy \in BusyPeriods(v, ParkingStand, w) : used \in ComputeNumberOfUsedParkingPlaces(busy, w)
  BY DEF UsedParkingPlaces
<1>3. PICK n \in Nat : \E order : Lists(busy, n, order, v, ParkingStand, w)
  BY <1>1, BusyPeriodsListed
<1>4. PICK order : Lists(busy, n, order, v, ParkingStand, w)  BY <1>3
<1>5. /\ busy \in [1 .. n -> NonEmpty] /\ order \in [1 .. n -> Entities]
      /\ \A k \in 1 .. n : busy[k] = PeriodOf(order[k])
      /\ \A h, k \in 1 .. n : h # k => order[h] # order[k]
  BY <1>4 DEF Lists
<1>6. \A k \in 1 .. n : order[k] \in reserving
  <2> SUFFICES ASSUME NEW k \in 1 .. n PROVE order[k] \in reserving  OBVIOUS
  <2>1. order[k] \in Entities /\ Found(RowOf(order[k]), Query(v, ParkingStand, w))
    BY <1>4 DEF Lists
  <2> QED  BY <1>1, <2>1, QueryFinds
<1>7. ASSUME NEW e \in reserving, NEW t \in w.from .. (w.to - 1), In(t, PeriodOf(e))
      PROVE  \E k \in 1 .. n : order[k] = e
  <2>1. e \in Entities  BY DEF Reserving
  <2>2. t \in Int /\ In(t, w)  BY <1>1 DEF In
  <2>3. Found(RowOf(e), Query(v, ParkingStand, w))  BY <1>1, <1>7, <2>1, <2>2, QueryFinds
  <2> QED  BY <1>4, <2>1, <2>3 DEF Lists
<1>8. reserving \subseteq Entities  BY DEF Reserving
<1> HIDE DEF reserving
<1>9. \A t \in w.from .. (w.to - 1) : Cardinality({k \in 1 .. n : In(t, busy[k])}) <= used
  BY <1>1, <1>2, <1>5, ComputedUsedPlacesBounded
<1>10. ASSUME NEW t \in w.from .. (w.to - 1)
       PROVE  Cardinality({e \in reserving : In(t, PeriodOf(e))}) <= used
  <2> DEFINE A == {k \in 1 .. n : In(t, busy[k])}
             B == {e \in reserving : In(t, PeriodOf(e))}
  <2>1. A \in SUBSET (1 .. n) /\ B \in SUBSET Entities  BY <1>8
  <2>2. Corresponds(order, n, A, B)  BY <1>5, <1>6, <1>7 DEF Corresponds
  <2>3. Cardinality(A) <= used  BY <1>9
  <2> HIDE DEF A, B
  <2>4. Cardinality(A) = Cardinality(B)  BY <1>5, <2>1, <2>2, ListCounts
  <2> QED  BY <2>3, <2>4 DEF B
<1>11. ASSUME w.from < w.to
       PROVE  \E t \in w.from .. w.to :
                used <= Cardinality({e \in reserving :
                                      /\ \E u \in w.from .. (w.to - 1) : In(u, PeriodOf(e))
                                      /\ PeriodOf(e).from <= t /\ t <= PeriodOf(e).to})
  <2>1. PICK t \in w.from .. w.to : used <= Cardinality(HoldingIn(busy, n, w, t))
    BY <1>1, <1>2, <1>5, <1>11, ComputedUsedPlacesBounded
  <2> DEFINE A == HoldingIn(busy, n, w, t)
             B == {e \in reserving : /\ \E u \in w.from .. (w.to - 1) : In(u, PeriodOf(e))
                                     /\ PeriodOf(e).from <= t /\ t <= PeriodOf(e).to}
  <2>2. A \in SUBSET (1 .. n) /\ B \in SUBSET Entities
    BY <1>8 DEF HoldingIn, Reaching
  <2>3. ASSUME NEW k \in 1 .. n
        PROVE  IntersectsWith(w, busy[k]) <=> \E u \in w.from .. (w.to - 1) : In(u, busy[k])
    <3>1. busy[k].from \in Int /\ busy[k].to \in Int /\ busy[k].from < busy[k].to
      BY <1>5 DEF NonEmpty, Period
    <3>2. ASSUME IntersectsWith(w, busy[k])
          PROVE  \E u \in w.from .. (w.to - 1) : In(u, busy[k])
      <4> DEFINE u == IF w.from < busy[k].from THEN busy[k].from ELSE w.from
      <4>1. u \in w.from .. (w.to - 1) /\ In(u, busy[k])
        BY <1>1, <1>11, <3>1, <3>2 DEF IntersectsWith, In
      <4> HIDE DEF u
      <4> QED  BY <4>1
    <3>3. ASSUME NEW u \in w.from .. (w.to - 1), In(u, busy[k])
          PROVE  IntersectsWith(w, busy[k])
      BY <1>1, <3>1, <3>3 DEF IntersectsWith, In
    <3> QED  BY <3>2, <3>3
  <2>4. Corresponds(order, n, A, B)  BY <1>5, <1>6, <1>7, <2>3 DEF Corresponds, HoldingIn, Reaching
  <2>5. used <= Cardinality(A)  BY <2>1
  <2> HIDE DEF A, B
  <2>6. Cardinality(A) = Cardinality(B)  BY <1>5, <2>2, <2>4, ListCounts
  <2> QED  BY <2>5, <2>6 DEF B
<1> QED  BY <1>10, <1>11 DEF reserving

\* The number of used parking places lies between what any instant of the
\* window has reserved and what touches one.
THEOREM VRPParkingCountBounded == Spec => []ParkingCountBounded
<1>1. TypeOK /\ PeriodsNonEmpty => ParkingCountBounded  BY ParkingCount DEF ParkingCountBounded
<1>2. IInv => TypeOK  BY DEF IInv
<1> QED  BY <1>1, <1>2, InvInit, InvNext, PeriodsInit, PeriodsNext, PTL DEF Spec

=============================================================================
