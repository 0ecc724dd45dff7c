--------------------------------- MODULE VRP ---------------------------------
(***************************************************************************)
(* Vertiport reservations (pkg/vrp): vertiports, the operational intents   *)
(* and constraints that reserve a zone of a vertiport for a while, the     *)
(* subscriptions to a zone, and the two queries of a vertiport's schedule. *)
(*                                                                         *)
(* A request that is accepted is one serializable transaction and one      *)
(* step; a rejected one is no step.  What VRP shares with SCD is left to   *)
(* the model of SCD: version counters and OVNs (the client of a write      *)
(* holds the current one), notification indices, the limit of a search.    *)
(***************************************************************************)
EXTENDS VertiportSchedule, FiniteSets, SequencesExt

CONSTANTS
  Managers,        \* the USSs, as named by the sub claim of their tokens
  Vertiports,      \* ids of vertiports
  OpIds,           \* ids of operational intents
  SubIds,          \* ids of subscriptions, chosen by clients or by uuid.New
  ConstraintIds,   \* ids of constraints
  Places,          \* the numbers of parking places clients give
  OpReservations,  \* the reservations clients give to operational intents
  ConstraintReservations,  \* and to constraints
  SubReservations, \* and to subscriptions, times left open or not
  RequestStates,   \* the states clients ask for
  OpFlags,         \* the values of notify_for_operational_intents clients ask for
  ConstraintFlags, \* the values of notify_for_constraints clients ask for
  Windows,         \* the periods schedule queries ask about
  MaxClockSkew,             \* maxClockSkew, in units of the model's clock
  MaxSubscriptionDuration,  \* maxSubscriptionDuration, in the same units
  MaxTime,         \* bound on the clock
  Nil              \* an absent value: no row, a Go nil

\* The reserved zones of pkg/models/vertiports.go.
FATO == 0
ParkingStand == 1

OptInt == Int \cup {Nil}

\* Reservations as parsed, and as stored: with both times.
Request == [vertiport : Vertiports, zone : {FATO, ParkingStand}, start : OptInt, end : OptInt]
Reservation == [vertiport : Vertiports, zone : {FATO, ParkingStand}, start : Int, end : Int]

States == {"Accepted", "Activated", "Nonconforming", "Contingent"}

ASSUME NilAssumption == Nil \notin Int

ASSUME IdsAssumption ==
  IsFiniteSet(OpIds) /\ IsFiniteSet(ConstraintIds) /\ OpIds \cap ConstraintIds = {}

ASSUME RequestsAssumption ==
  /\ OpReservations \cup ConstraintReservations \subseteq Reservation
  /\ SubReservations \subseteq Request
  /\ RequestStates \subseteq States
  /\ OpFlags \cup ConstraintFlags \subseteq BOOLEAN
  /\ Places \subseteq Nat
  /\ Windows \subseteq Period
  /\ {MaxClockSkew, MaxSubscriptionDuration, MaxTime} \subseteq Nat

VARIABLES
  now,          \* the clock
  vertiports,   \* table vrp_vertiports: the number of parking places
  ops,          \* table vrp_operations
  subs,         \* table vrp_subscriptions
  constraints   \* table vrp_constraints

\* Observations of what clients were told; no guard reads them.
VARIABLES
  aware,  \* <<i, e>>: i was last written with a key that holds e's current OVN
  known   \* per explicit subscription and entity, what its USS was told last

tables == <<vertiports, ops, subs, constraints>>
vars == <<now, vertiports, ops, subs, constraints, aware, known>>

Op == [manager : Managers, state : States, res : Reservation, sub : SubIds]
Sub == [manager : Managers, res : Reservation, notifyOps : BOOLEAN,
        notifyConstraints : BOOLEAN, implicit : BOOLEAN]
Constraint == [manager : Managers, res : Reservation]

ASSUME NilIsNoRow == Nil \notin Op \cup Sub \cup Constraint

\* What a subscriber knows of an entity: nothing, its current version or an older one.
Knowledge == {"nothing", "current", "stale"}

Entities == OpIds \cup ConstraintIds

-----------------------------------------------------------------------------
(* Queries *)

\* COALESCE(a >= b, true)
AtLeast(a, b) == a = Nil \/ b = Nil \/ a >= b

\* Mutant: periods that only touch are not found.
FoundStrictly(row, r) ==
  /\ row # Nil
  /\ row.res.vertiport = r.vertiport /\ row.res.zone = r.zone
  /\ ~AtLeast(r.start, row.res.end) /\ ~AtLeast(row.res.start, r.end)

\* The condition of every search query, on any of the three tables.
Found(row, r) ==
  /\ row # Nil
  /\ row.res.vertiport = r.vertiport /\ row.res.zone = r.zone
  /\ AtLeast(row.res.end, r.start) /\ AtLeast(r.end, row.res.start)

SearchOps(r) == {i \in OpIds : Found(ops[i], r)}
SearchSubs(r) == {s \in SubIds : Found(subs[s], r)}
SearchConstraints(r) == {c \in ConstraintIds : Found(constraints[c], r)}

GetDependentOps(s) == {i \in OpIds : ops[i] # Nil /\ ops[i].sub = s}

-----------------------------------------------------------------------------
(* Notifications *)

\* The explicit subscriptions among those found in r that asked for
\* operational intents, and for constraints.  The USS of an implicit one is
\* notified as well, but its knowledge is not followed.
NotifiedOfOps(r) == {s \in SearchSubs(r) : subs[s].notifyOps /\ ~subs[s].implicit}
NotifiedOfConstraints(r) ==
  {s \in SearchSubs(r) : subs[s].notifyConstraints /\ ~subs[s].implicit}

\* What is known once entity e changes, to "news" for the subscriptions of
\* "notified", and the entities of "lost" go without a word.
KnownAfter(e, news, notified, lost) ==
  [s \in SubIds |-> [d \in Entities |->
     IF d = e /\ s \in notified THEN news
     ELSE IF d \in {e} \cup lost /\ known[s][d] # "nothing" THEN "stale" ELSE known[s][d]]]

\* The awareness that survives a change of the entities E.
AwareWithout(E) == {p \in aware : {p[1], p[2]} \cap E = {}}

-----------------------------------------------------------------------------
(* Vertiports *)

\* PutVertiport: anyone may write any vertiport, whatever is there.
PutVertiport(v, places) ==
  /\ vertiports' = [vertiports EXCEPT ![v] = places]
  /\ UNCHANGED <<now, ops, subs, constraints, aware, known>>

\* DeleteVertiport: its reservations and subscriptions stay.
DeleteVertiport(v) ==
  /\ vertiports[v] # Nil
  /\ vertiports' = [vertiports EXCEPT ![v] = Nil]
  /\ UNCHANGED <<now, ops, subs, constraints, aware, known>>

-----------------------------------------------------------------------------
(* Operational intents *)

RequiresKey(st) == st \notin {"Nonconforming", "Contingent"}

\* The checks of PutVertiportOperationalIntentReference on the request and on
\* the stored row.
MayPutOp(m, i, st, r) ==
  /\ now <= r.end
  /\ r.start < r.end                       \* CHECK (starts_at < ends_at)
  /\ IF ops[i] = Nil THEN st = "Accepted" ELSE ops[i].manager = m

\* The entities whose OVNs the key must hold.
KeyFor(st, r, sub) ==
  IF ~RequiresKey(st) THEN {}
  ELSE SearchOps(r) \cup (IF sub.notifyConstraints THEN SearchConstraints(r) ELSE {})

\* From the check of the key to the response.  The supporting subscription s
\* was put into the table or extended before; being implicit then, it makes
\* no difference to whom the knowledge is followed of.
StoreOp(m, i, st, r, s, sub) ==
  /\ ops' = [ops EXCEPT ![i] = [manager |-> m, state |-> st, res |-> r, sub |-> s]]
  /\ aware' = AwareWithout({i}) \cup {<<i, e>> : e \in KeyFor(st, r, sub) \ {i}}
  /\ known' = KnownAfter(i, "current", NotifiedOfOps(r), {})
  /\ UNCHANGED <<now, vertiports, constraints>>

\* PutVertiportOperationalIntentReference without a subscription_id.
PutOpWithImplicitSub(m, i, st, r, s, fc) ==
  LET sub == [manager |-> m, res |-> r, notifyOps |-> TRUE, notifyConstraints |-> fc,
              implicit |-> TRUE]
  IN  /\ subs[s] = Nil
      /\ subs' = [subs EXCEPT ![s] = sub]
      /\ StoreOp(m, i, st, r, s, sub)

\* Whether the reservation of a subscription covers that of an operational intent.
Covers(sr, r) ==
  /\ sr.vertiport = r.vertiport /\ sr.zone = r.zone
  /\ sr.start <= r.start /\ r.end <= sr.end

\* PutVertiportOperationalIntentReference naming a subscription that covers r.
PutOpWithCoveringSub(m, i, st, r, s) ==
  /\ subs[s] # Nil
  /\ subs[s].manager = m
  /\ Covers(subs[s].res, r)
  /\ UNCHANGED subs
  /\ StoreOp(m, i, st, r, s, subs[s])

\* The reservation of an implicit subscription extended to r.  Where it was
\* for another vertiport or zone it moves there, and its other dependents
\* stay behind.
Extended(sr, r) ==
  [vertiport |-> r.vertiport, zone |-> r.zone,
   start |-> IF sr.start > r.start THEN r.start ELSE sr.start,
   end |-> IF sr.end < r.end THEN r.end ELSE sr.end]

\* PutVertiportOperationalIntentReference naming a subscription that does not
\* cover r: an implicit one follows its operational intent.
PutOpExtendingSub(m, i, st, r, s) ==
  /\ subs[s] # Nil
  /\ subs[s].manager = m
  /\ ~Covers(subs[s].res, r)
  /\ subs[s].implicit
  /\ subs' = [subs EXCEPT ![s].res = Extended(@, r)]
  /\ StoreOp(m, i, st, r, s, subs[s])

\* Mutant: the other dependents are not counted.
RemovedWithAny(i) == {s \in SubIds : s = ops[i].sub /\ subs[s].implicit}

\* The subscription that a deletion of operational intent i removes with it:
\* an implicit one with no other dependent.
RemovedWith(i) ==
  {s \in SubIds : s = ops[i].sub /\ subs[s].implicit /\ GetDependentOps(s) = {i}}

\* REFERENCES vrp_subscriptions(id) ON DELETE CASCADE: the operational intents
\* that go with the subscriptions of S.
Cascade(S) == {j \in OpIds : ops[j] # Nil /\ ops[j].sub \in S}

\* DeleteVertiportOperationalIntentReference.
DeleteOp(m, i) ==
  /\ ops[i] # Nil
  /\ ops[i].manager = m
  /\ subs[ops[i].sub] # Nil
  /\ LET gone == {i} \cup Cascade(RemovedWith(i)) IN
     /\ ops' = [j \in OpIds |-> IF j \in gone THEN Nil ELSE ops[j]]
     /\ subs' = [s \in SubIds |-> IF s \in RemovedWith(i) THEN Nil ELSE subs[s]]
     /\ aware' = AwareWithout(gone)
     /\ known' = KnownAfter(i, "nothing", NotifiedOfOps(ops[i].res), gone \ {i})
  /\ UNCHANGED <<now, vertiports, constraints>>

-----------------------------------------------------------------------------
(* Subscriptions *)

\* AdjustTimeRange: absent times come from the stored subscription, or default
\* to now and to the longest duration allowed.
AdjustedStart(r, old) ==
  IF r.start # Nil THEN r.start ELSE IF old = Nil THEN now ELSE old.res.start

AdjustedEnd(r, old) ==
  IF r.end # Nil THEN r.end
  ELSE IF old # Nil THEN old.res.end ELSE AdjustedStart(r, old) + MaxSubscriptionDuration

ValidTimeRange(r, new) ==
  /\ r.start # Nil => now - r.start <= MaxClockSkew
  /\ new.start < new.end                   \* CHECK (starts_at < ends_at)
  /\ new.end - new.start <= MaxSubscriptionDuration

\* Mutant: the zone is not compared.
ValidDependentAnyZone(op, new) ==
  /\ new.vertiport = op.res.vertiport
  /\ new.start - op.res.start <= MaxClockSkew /\ op.res.end <= new.end

\* ValidateDependentOp
ValidDependentOp(op, new) ==
  /\ new.vertiport = op.res.vertiport /\ new.zone = op.res.zone
  /\ new.start - op.res.start <= MaxClockSkew /\ op.res.end <= new.end

\* Mutant: the times of the request unadjusted.
StoredUnadjusted(r, old) == r

\* The reservation PutVertiportSubscription stores.
Stored(r, old) ==
  [vertiport |-> r.vertiport, zone |-> r.zone,
   start |-> AdjustedStart(r, old), end |-> AdjustedEnd(r, old)]

\* Mutant: the answer leaves out what has begun already.
AnsweredUpcoming(r, new, fo, fc) ==
  (IF fo THEN {i \in SearchOps(new) : ops[i].res.start >= now} ELSE {})
    \cup (IF fc THEN SearchConstraints(r) ELSE {})

\* The entities the answer lists.  Constraints are searched with the times of
\* the request, where an absent one is no bound.
Answered(r, new, fo, fc) ==
  (IF fo THEN SearchOps(new) ELSE {}) \cup (IF fc THEN SearchConstraints(r) ELSE {})

\* PutVertiportSubscription: whatever there was becomes an explicit subscription.
PutSubscription(m, s, r, fo, fc) ==
  LET new == Stored(r, subs[s]) IN
  /\ fo \/ fc
  /\ subs[s] # Nil => subs[s].manager = m
  /\ ValidTimeRange(r, [start |-> AdjustedStart(r, subs[s]), end |-> AdjustedEnd(r, subs[s])])
  /\ \A i \in GetDependentOps(s) : ValidDependentOp(ops[i], new)
  /\ subs' = [subs EXCEPT ![s] = [manager |-> m, res |-> new, notifyOps |-> fo,
                                  notifyConstraints |-> fc, implicit |-> FALSE]]
  /\ known' = [known EXCEPT ![s] = [e \in Entities |->
                 IF e \in Answered(r, new, fo, fc) THEN "current" ELSE "nothing"]]
  /\ UNCHANGED <<now, vertiports, ops, constraints, aware>>

\* DeleteVertiportSubscription.  The version of the request is not read.
DeleteSubscription(m, s) ==
  /\ subs[s] # Nil
  /\ subs[s].manager = m
  /\ GetDependentOps(s) = {}
  /\ subs' = [subs EXCEPT ![s] = Nil]
  /\ known' = [known EXCEPT ![s] = [e \in Entities |-> "nothing"]]
  /\ UNCHANGED <<now, vertiports, ops, constraints, aware>>

-----------------------------------------------------------------------------
(* Constraints *)

\* PutVertiportConstraintReference
PutConstraint(m, c, r) ==
  /\ r.start < r.end                       \* CHECK (starts_at < ends_at)
  /\ constraints[c] # Nil => constraints[c].manager = m
  /\ constraints' = [constraints EXCEPT ![c] = [manager |-> m, res |-> r]]
  /\ aware' = AwareWithout({c})
  /\ known' = KnownAfter(c, "current", NotifiedOfConstraints(r), {})
  /\ UNCHANGED <<now, vertiports, ops, subs>>

\* DeleteVertiportConstraintReference
DeleteConstraint(m, c) ==
  /\ constraints[c] # Nil
  /\ constraints[c].manager = m
  /\ constraints' = [constraints EXCEPT ![c] = Nil]
  /\ aware' = AwareWithout({c})
  /\ known' = KnownAfter(c, "nothing", NotifiedOfConstraints(constraints[c].res), {})
  /\ UNCHANGED <<now, vertiports, ops, subs>>

-----------------------------------------------------------------------------
(* The schedule of a vertiport: queries, which change nothing *)

PeriodOf(e) ==
  LET row == IF e \in OpIds THEN ops[e] ELSE constraints[e]
  IN  [from |-> row.res.start, to |-> row.res.end]

\* The busy periods a schedule query reads, in the orders it may read them:
\* the constraints, then the operational intents, each in any order of rows.
BusyPeriods(v, zone, w) ==
  LET r == [vertiport |-> v, zone |-> zone, start |-> w.from, end |-> w.to]
      orders == {x \o y : x \in SetToSeqs(SearchConstraints(r)), y \in SetToSeqs(SearchOps(r))}
  IN  {[k \in DOMAIN x |-> PeriodOf(x[k])] : x \in orders}

\* GetVertiportFATOAvailableTimes: the answers it may give, errors included.
\* It does not ask whether the vertiport exists.
FATOAvailableTimes(v, w) ==
  {ComputeFreeTimePeriods(busy, w) : busy \in BusyPeriods(v, FATO, w)}

\* GetNumberOfUsedParkingPlaces: the numbers it may report as used.  For a
\* vertiport that does not exist the handler dereferences nil and answers nothing.
UsedParkingPlaces(v, w) ==
  IF vertiports[v] = Nil THEN {}
  ELSE UNION {ComputeNumberOfUsedParkingPlaces(busy, w) : busy \in BusyPeriods(v, ParkingStand, w)}

-----------------------------------------------------------------------------
(* The specification *)

Init ==
  /\ now = 0
  /\ vertiports = [v \in Vertiports |-> Nil]
  /\ ops = [i \in OpIds |-> Nil]
  /\ subs = [s \in SubIds |-> Nil]
  /\ constraints = [c \in ConstraintIds |-> Nil]
  /\ aware = {}
  /\ known = [s \in SubIds |-> [e \in Entities |-> "nothing"]]

Tick ==
  /\ now < MaxTime
  /\ now' = now + 1
  /\ UNCHANGED <<tables, aware, known>>

PutOp(m, i) ==
  \E st \in RequestStates, r \in OpReservations, s \in SubIds :
    /\ MayPutOp(m, i, st, r)
    /\ \/ \E fc \in ConstraintFlags : PutOpWithImplicitSub(m, i, st, r, s, fc)
       \/ PutOpWithCoveringSub(m, i, st, r, s)
       \/ PutOpExtendingSub(m, i, st, r, s)

SubscriptionRequest(m, s) ==
  \/ \E r \in SubReservations, fo \in OpFlags, fc \in ConstraintFlags :
       PutSubscription(m, s, r, fo, fc)
  \/ DeleteSubscription(m, s)

ConstraintRequest(m, c) ==
  \/ \E r \in ConstraintReservations : PutConstraint(m, c, r)
  \/ DeleteConstraint(m, c)

Next ==
  \/ Tick
  \/ \E v \in Vertiports : (\E places \in Places : PutVertiport(v, places)) \/ DeleteVertiport(v)
  \/ \E m \in Managers :
       \/ \E i \in OpIds : PutOp(m, i) \/ DeleteOp(m, i)
       \/ \E s \in SubIds : SubscriptionRequest(m, s)
       \/ \E c \in ConstraintIds : ConstraintRequest(m, c)

Spec == Init /\ [][Next]_vars

-----------------------------------------------------------------------------
(* Properties *)

\* Every table holds well-formed rows.
TypeOK ==
  /\ now \in Nat
  /\ vertiports \in [Vertiports -> Nat \cup {Nil}]
  /\ ops \in [OpIds -> Op \cup {Nil}]
  /\ subs \in [SubIds -> Sub \cup {Nil}]
  /\ constraints \in [ConstraintIds -> Constraint \cup {Nil}]
  /\ aware \subseteq OpIds \X Entities
  /\ known \in [SubIds -> [Entities -> Knowledge]]

\* An explicit subscription is for the vertiport, the zone and the times of
\* every operational intent it supports, up to the five minutes that
\* ValidateDependentOp allows at the start, whichever of the two was written
\* last and also if the subscription was an implicit one that had moved away.
ExplicitSupportCovers ==
  \A i \in OpIds : ops[i] # Nil =>
    LET sub == subs[ops[i].sub] IN
    /\ sub # Nil /\ sub.manager = ops[i].manager
    /\ ~sub.implicit =>
         /\ sub.res.vertiport = ops[i].res.vertiport /\ sub.res.zone = ops[i].res.zone
         /\ sub.res.start - ops[i].res.start <= MaxClockSkew
         /\ ops[i].res.end <= sub.res.end

\* Whether two reservations are for one zone and share an instant, their ends included.
Meet(r, q) ==
  /\ r.vertiport = q.vertiport /\ r.zone = q.zone
  /\ \E t \in r.start .. r.end : t \in q.start .. q.end

\* Of two operational intents that reserve the same zone at the same time and
\* both had to show a key, one showed the current OVN of the other: every
\* change of time, zone or state checks the key again.
ConflictsSeen ==
  \A i, j \in OpIds :
    /\ i # j /\ ops[i] # Nil /\ ops[j] # Nil
    /\ RequiresKey(ops[i].state) /\ RequiresKey(ops[j].state)
    /\ Meet(ops[i].res, ops[j].res)
    => <<i, j>> \in aware \/ <<j, i>> \in aware

\* The rows of the entities that subscription row sub asked for.
RowOf(e) == IF e \in OpIds THEN ops[e] ELSE constraints[e]
AskedFor(sub, e) == IF e \in OpIds THEN sub.notifyOps ELSE sub.notifyConstraints

\* The USS of an explicit subscription knows the current version of every
\* entity it asked for that meets its zone and times: from the answer when it
\* subscribed, or from a later notification.
SubscribersKnow ==
  \A s \in SubIds, e \in Entities :
    /\ subs[s] # Nil /\ ~subs[s].implicit /\ AskedFor(subs[s], e)
    /\ RowOf(e) # Nil /\ Meet(subs[s].res, RowOf(e).res)
    => known[s][e] = "current"

\* What such a USS knows of an entity goes stale only when the entity moves
\* to where the subscription does not reach.  Every deletion is announced, and
\* no cascade of the tables deletes an operational intent behind its back.
StaleOnlyByDeparture ==
  [][\A s \in SubIds, e \in Entities :
       /\ known[s][e] = "current" /\ known'[s][e] = "stale"
       /\ subs[s] # Nil /\ Meet(subs[s].res, RowOf(e).res)
       => RowOf(e)' # Nil /\ ~Meet(subs[s].res, RowOf(e)'.res)]_vars

\* The entities that reserve zone z of vertiport v.
Reserving(v, z) ==
  {e \in Entities : RowOf(e) # Nil /\ RowOf(e).res.vertiport = v /\ RowOf(e).res.zone = z}

\* When the FATO query answers, an instant of the window is free exactly if no
\* constraint and no operational intent reserves the FATO then, and no
\* answered period is empty or leaves the window, whatever the order of rows;
\* save that a window that is empty itself may come back as it is.
FreeTimesExact ==
  \A v \in Vertiports, w \in Windows : \A answer \in FATOAvailableTimes(v, w) :
    answer.ok =>
      /\ \A p \in answer.free : p = w \/ (w.from <= p.from /\ p.from < p.to /\ p.to <= w.to)
      /\ \A t \in w.from .. (w.to - 1) :
           InSome(t, answer.free) <=> ~\E e \in Reserving(v, FATO) : In(t, PeriodOf(e))

\* The number of used parking places is no less than the number reserved at
\* any instant of the window and, if the window is not empty, no more than the
\* number of the periods reaching into it that hold some instant, their ends
\* included.
ParkingCountBounded ==
  \A v \in Vertiports, w \in Windows : \A used \in UsedParkingPlaces(v, w) :
    LET reserving == Reserving(v, ParkingStand) IN
    /\ \A t \in w.from .. (w.to - 1) :
         Cardinality({e \in reserving : In(t, PeriodOf(e))}) <= used
    /\ w.from < w.to =>
         \E t \in w.from .. w.to :
           used <= Cardinality({e \in reserving :
                                 /\ \E u \in w.from .. (w.to - 1) : In(u, PeriodOf(e))
                                 /\ PeriodOf(e).from <= t /\ t <= PeriodOf(e).to})

-----------------------------------------------------------------------------
(* What a comment of the code says and the code does not do *)

\* A busy period that completely covers a free one leaves nothing of it
\* (models.go:75), so the FATO query never fails on it.
FreeTimesAnswered ==
  \A v \in Vertiports, w \in Windows : \A answer \in FATOAvailableTimes(v, w) : answer.ok

=============================================================================
