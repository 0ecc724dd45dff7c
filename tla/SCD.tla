--------------------------------- MODULE SCD ---------------------------------
(***************************************************************************)
(* Strategic conflict detection (pkg/scd): operational intents, the        *)
(* subscriptions that support them, and constraints.                       *)
(*                                                                         *)
(* Every handler does its work in one call of Store.Transact, a            *)
(* serializable CockroachDB transaction, so an accepted request is one     *)
(* step.  A rejected request leaves the tables alone and is no step: the   *)
(* guards of an action are the error returns of its handler.               *)
(***************************************************************************)
EXTENDS Volumes, FiniteSets

CONSTANTS
  Managers,           \* the USSs, as named by the sub claim of their tokens
  OpIds,              \* ids of operational intents
  SubIds,             \* ids of subscriptions, chosen by clients or by uuid.New
  ConstraintIds,      \* ids of constraints
  OpExtents,          \* the extents clients give to operational intents and constraints
  SubExtents,         \* the extents clients give to subscriptions
  RequestStates,      \* the states clients ask for
  OpFlags,            \* the values of notify_for_operational_intents clients ask for
  ConstraintFlags,    \* the values of notify_for_constraints clients ask for
  MaxClockSkew,       \* maxClockSkew, in seconds of the model
  MaxSubscriptionDuration,  \* maxSubscriptionDuration, in seconds of the model
  MaxResultLimit,     \* the LIMIT of every search query
  MaxTime,            \* bound on the clock
  MaxVersion,         \* bound on the version counter of an entity
  MaxIndex            \* bound on the notification index of a subscription

\* Sub-volumes as parsed: absent times are filled by AdjustTimeRange.
SubExtent == [cells : SUBSET Cells, lo : OptInt, hi : OptInt,
              start : OptInt, end : OptInt]

States == {"Accepted", "Activated", "Nonconforming", "Contingent"}

ASSUME RequestsAssumption ==
  /\ OpExtents \subseteq Volume
  /\ SubExtents \subseteq SubExtent
  /\ RequestStates \subseteq States
  /\ OpFlags \subseteq BOOLEAN
  /\ ConstraintFlags \subseteq BOOLEAN

ASSUME BoundsAssumption ==
  /\ MaxClockSkew \in Nat
  /\ MaxSubscriptionDuration \in Nat
  /\ MaxResultLimit \in Nat
  /\ MaxTime \in Nat
  /\ MaxVersion \in Nat
  /\ MaxIndex \in Nat

VARIABLES
  now,          \* the clock, at the resolution of an OVN: one second
  ops,          \* table scd_operations
  subs,         \* table scd_subscriptions
  constraints   \* table scd_constraints

\* Observations of what clients were told; no guard reads proved and told.
VARIABLES
  retired,  \* the OVNs of versions that were overwritten or deleted
  proved,   \* per operational intent, the key its last write was checked against
  told      \* per subscription, the indices of its own row that were handed out

vars == <<now, ops, subs, constraints, retired, proved, told>>

\* NewOVNFromTime hashes the id and the time of the last update, formatted by
\* RFC 3339 without fractions of a second.
OVN(id, t) == <<id, t>>
OVNs == (OpIds \cup SubIds \cup ConstraintIds) \X Nat

Op == [manager : Managers, version : Nat, state : States, vol : Volume,
       sub : SubIds, updated : Nat]
Sub == [manager : Managers, cells : SUBSET StoredCells, start : Int, end : Int,
        notifyOps : BOOLEAN, notifyConstraints : BOOLEAN, implicit : BOOLEAN,
        index : Nat, updated : Nat]
Constraint == [manager : Managers, version : Nat, vol : Volume, updated : Nat]

\* A row is there or not: Nil, the answer for no row, is not a row.
ASSUME NilIsNoRow == Nil \notin Op \cup Sub \cup Constraint

OpOVN(i) == OVN(i, ops[i].updated)
SubVersion(s) == OVN(s, subs[s].updated)
ConstraintOVN(c) == OVN(c, constraints[c].updated)

\* The OVNs of the live operational intents and constraints, of which keys
\* are made, and of everything alive.
EntityOVNs ==
  {OpOVN(i) : i \in {j \in OpIds : ops[j] # Nil}}
    \cup {ConstraintOVN(c) : c \in {d \in ConstraintIds : constraints[d] # Nil}}
CurrentOVNs ==
  EntityOVNs \cup {SubVersion(s) : s \in {r \in SubIds : subs[r] # Nil}}

-----------------------------------------------------------------------------
(* Queries *)

\* The answers a query with LIMIT MaxResultLimit may give when the rows of
\* "matching" satisfy its condition.
Limited(matching) ==
  IF Cardinality(matching) <= MaxResultLimit
  THEN {matching}
  ELSE {S \in SUBSET matching : Cardinality(S) = MaxResultLimit}

MatchesOp(op, v) ==
  /\ SharesCellId(op.vol.cells, v.cells)
  /\ AtLeast(op.vol.hi, v.lo)
  /\ AtLeast(v.hi, op.vol.lo)
  /\ TimesOverlap(op.vol.start, op.vol.end, v)

\* Mutant: operational intents that contain the volume ("@>" for "&&").
SearchContainingOps(v) ==
  Limited({i \in OpIds : ops[i] # Nil /\ MatchesOp(ops[i], v)
                                     /\ v.cells \subseteq ops[i].vol.cells})

SearchOperationalIntents(v) ==
  Limited({i \in OpIds : ops[i] # Nil /\ MatchesOp(ops[i], v)})

\* Mutant: periods that only touch ("<" for "<=").
MatchesSubStrictly(sub, v) ==
  /\ SharesCellId(sub.cells, v.cells)
  /\ sub.end > v.start /\ v.end > sub.start

MatchesSub(sub, v) ==
  /\ SharesCellId(sub.cells, v.cells)
  /\ TimesOverlap(sub.start, sub.end, v)

\* Searches the subscriptions table as it stands inside the transaction.
SearchSubscriptions(table, v) ==
  Limited({s \in SubIds : table[s] # Nil /\ MatchesSub(table[s], v)})

MatchesConstraint(c, v) ==
  /\ SharesCellId(c.vol.cells, v.cells)
  /\ TimesOverlap(c.vol.start, c.vol.end, v)

SearchConstraints(v) ==
  Limited({c \in ConstraintIds : constraints[c] # Nil /\ MatchesConstraint(constraints[c], v)})

GetDependentOperationalIntents(s) == {i \in OpIds : ops[i] # Nil /\ ops[i].sub = s}

-----------------------------------------------------------------------------
(* Notifications *)

\* UPDATE ... SET notification_index = notification_index + 1 WHERE id = ANY(S)
Incremented(table, S) ==
  [s \in SubIds |-> IF s \in S THEN [table[s] EXCEPT !.index = @ + 1] ELSE table[s]]

\* With the indices the response reports, each kept with the subscription whose
\* row it comes from.  RETURNING yields the rows in no stated order, and the
\* handler credits the k-th of them to the k-th subscription, so the response
\* may report an index under another subscription of S; that is not followed.
Reported(table, S) ==
  [s \in SubIds |-> IF s \in S THEN told[s] \cup {table[s].index + 1} ELSE told[s]]

\* Mutant: only where the entity goes.
NotifyNewVolume(old, v) == v

\* The volume subscriptions are searched in when an entity of volume v
\* replaces "old" (Nil when there is none).
NotifyVolume(old, v) == IF old = Nil THEN v ELSE UnionVolumes4D(v, old.vol)

\* Of the subscriptions found, those interested in operational intents, and
\* those interested in constraints.
NotifiedOfOps(table, found) == {s \in found : table[s].notifyOps}
NotifiedOfConstraints(table, found) == {s \in found : table[s].notifyConstraints}

\* A bound of the model, not of the code.
BelowMaxIndex(table, S) == \A s \in S : table[s].index < MaxIndex

-----------------------------------------------------------------------------
(* Operational intents *)

RequiresKey(st) == st \notin {"Nonconforming", "Contingent"}

\* Mutant: any OVN will do.
MayPutOpUnversioned(m, i, ovn, st, v) ==
  /\ now <= v.end /\ v.start < v.end
  /\ ovn = Nil => st = "Accepted"
  /\ IF ops[i] = Nil THEN ovn = Nil ELSE ops[i].manager = m /\ ovn # Nil

\* The checks of PutOperationalIntentReference on the request and on the
\* stored operational intent.  The empty OVN asks for a creation.
MayPutOp(m, i, ovn, st, v) ==
  /\ now <= v.end
  /\ v.start < v.end                       \* CHECK (starts_at < ends_at)
  /\ ovn = Nil => st = "Accepted"
  /\ IF ops[i] = Nil THEN ovn = Nil ELSE ops[i].manager = m /\ ovn = OpOVN(i)

\* The key must hold the OVN of every operational intent found in v, the one
\* being written included, and of every constraint if the supporting
\* subscription is notified of constraints.
KeySuffices(st, v, key, sub) ==
  RequiresKey(st) =>
    /\ \E found \in SearchOperationalIntents(v) : \A j \in found : OpOVN(j) \in key
    /\ sub.notifyConstraints =>
         \E found \in SearchConstraints(v) : \A c \in found : ConstraintOVN(c) \in key

\* Mutant: the notification flags swapped.
NewImplicitSubSwapped(m, v, fc) ==
  [manager |-> m, cells |-> v.cells, start |-> v.start, end |-> v.end,
   notifyOps |-> fc, notifyConstraints |-> TRUE, implicit |-> TRUE,
   index |-> 0, updated |-> now]

\* A new implicit subscription, with the extents of its operational intent.
NewImplicitSub(m, v, fc) ==
  [manager |-> m, cells |-> v.cells, start |-> v.start, end |-> v.end,
   notifyOps |-> TRUE, notifyConstraints |-> fc, implicit |-> TRUE,
   index |-> 0, updated |-> now]

\* Mutant: an extension that leaves the end time alone.
ExtendedSubKeepsEnd(sub, v, contained) ==
  [NewImplicitSub(sub.manager, v, sub.notifyConstraints) EXCEPT
     !.cells = sub.cells \cup v.cells, !.start = MinOf(sub.start, v.start),
     !.end = sub.end, !.index = sub.index]

\* An existing subscription as it must be to support volume v.  "contained"
\* is the answer of sub.Cells.Contains.
ExtendedSub(sub, v, contained) ==
  [manager |-> sub.manager,
   cells |-> IF contained THEN sub.cells ELSE CellUnionFromUnion(sub.cells, v.cells),
   start |-> MinOf(sub.start, v.start), end |-> MaxOf(sub.end, v.end),
   notifyOps |-> sub.notifyOps, notifyConstraints |-> sub.notifyConstraints,
   implicit |-> sub.implicit, index |-> sub.index, updated |-> now]

TimesCovered(sub, v) == sub.start <= v.start /\ v.end <= sub.end

\* CellUnion.Contains searches its cells by bisection.  The cells of an
\* implicit subscription are stored in the order of a Go map, so the search
\* may miss a cell that is there.  The stored order is not kept: an extension
\* sorts the cells, after which the search cannot miss any more.
ContainsAnswers(sub, cells) ==
  {CellUnionContains(sub.cells, cells)}
    \cup (IF sub.implicit /\ Cardinality(sub.cells) > 1 THEN {FALSE} ELSE {})

\* From the upsert of the operational intent to the response; table is the
\* subscriptions table with the supporting subscription s created or extended.
StoreOp(m, i, st, v, key, s, table) ==
  /\ KeySuffices(st, v, key, table[s])
  /\ ops[i] # Nil => ops[i].version < MaxVersion
  /\ ops' = [ops EXCEPT ![i] =
       [manager |-> m, version |-> IF ops[i] = Nil THEN 1 ELSE ops[i].version + 1,
        state |-> st, vol |-> v, sub |-> s, updated |-> now]]
  /\ proved' = [proved EXCEPT ![i] = IF RequiresKey(st) THEN key ELSE {}]
  /\ \E found \in SearchSubscriptions(table, NotifyVolume(ops[i], v)) :
       LET S == NotifiedOfOps(table, found) IN
       /\ BelowMaxIndex(table, S)
       /\ subs' = Incremented(table, S)
       /\ told' = Reported(table, S)
  /\ UNCHANGED <<now, constraints>>

\* The versions that this write of operational intent i ends.
EndedOpVersion(i) == IF ops[i] = Nil THEN {} ELSE {OpOVN(i)}

\* uuid.New never returns an id that was used before.
FreshSubId(s) == subs[s] = Nil /\ \A t \in 0..now : OVN(s, t) \notin retired

\* PutOperationalIntentReference without a subscription_id.
PutOpWithImplicitSub(m, i, st, v, key, s, fc) ==
  /\ FreshSubId(s)
  /\ StoreOp(m, i, st, v, key, s, [subs EXCEPT ![s] = NewImplicitSub(m, v, fc)])
  /\ retired' = retired \cup EndedOpVersion(i)

\* PutOperationalIntentReference naming a subscription that covers v already.
PutOpWithCoveringSub(m, i, st, v, key, s) ==
  /\ subs[s] # Nil
  /\ subs[s].manager = m
  /\ TimesCovered(subs[s], v)
  /\ TRUE \in ContainsAnswers(subs[s], v.cells)
  /\ StoreOp(m, i, st, v, key, s, subs)
  /\ retired' = retired \cup EndedOpVersion(i)

\* PutOperationalIntentReference naming an implicit subscription, which is
\* extended to cover v.
PutOpExtendingSub(m, i, st, v, key, s) ==
  /\ subs[s] # Nil
  /\ subs[s].manager = m
  /\ subs[s].implicit
  /\ \E contained \in ContainsAnswers(subs[s], v.cells) :
       /\ ~(contained /\ TimesCovered(subs[s], v))
       /\ StoreOp(m, i, st, v, key, s,
                  [subs EXCEPT ![s] = ExtendedSub(@, v, contained)])
  /\ retired' = retired \cup EndedOpVersion(i) \cup {SubVersion(s)}

\* Mutant: the other dependents are not counted.
RemovedWithAny(i) == {s \in SubIds : s = ops[i].sub /\ subs[s].implicit}

\* The subscription that a deletion of operational intent i removes with it:
\* an implicit one with no other dependent.
RemovedWith(i) ==
  {s \in SubIds : s = ops[i].sub /\ subs[s].implicit
                    /\ GetDependentOperationalIntents(s) = {i}}

\* DeleteOperationalIntentReference.  The OVN of the request is not read.
DeleteOperationalIntentReference(m, i, ovn) ==
  /\ ops[i] # Nil
  /\ ops[i].manager = m
  /\ subs[ops[i].sub] # Nil
  /\ \E found \in SearchSubscriptions(subs, ops[i].vol) :
       LET S == NotifiedOfOps(subs, found) IN
       /\ BelowMaxIndex(subs, S)
       /\ subs' = [s \in SubIds |->
                     IF s \in RemovedWith(i) THEN Nil ELSE Incremented(subs, S)[s]]
       /\ told' = [s \in SubIds |->
                     IF s \in RemovedWith(i) THEN {} ELSE Reported(subs, S)[s]]
  /\ ops' = [ops EXCEPT ![i] = Nil]
  /\ proved' = [proved EXCEPT ![i] = {}]
  /\ retired' = retired \cup {OpOVN(i)} \cup {SubVersion(s) : s \in RemovedWith(i)}
  /\ UNCHANGED <<now, constraints>>

-----------------------------------------------------------------------------
(* Subscriptions *)

\* AdjustTimeRange: absent times come from the stored subscription, or default
\* to now and to the longest duration allowed.
AdjustedStart(e, old) ==
  IF e.start # Nil THEN e.start ELSE IF old = Nil THEN now ELSE old.start

AdjustedEnd(e, old) ==
  IF e.end # Nil THEN e.end
  ELSE IF old # Nil THEN old.end ELSE AdjustedStart(e, old) + MaxSubscriptionDuration

ValidTimeRange(e, start, end) ==
  /\ e.start # Nil => now - e.start <= MaxClockSkew
  /\ start < end                           \* CHECK (starts_at < ends_at)
  /\ end - start <= MaxSubscriptionDuration

\* Mutant: only the times of a dependent are checked.
ValidDependentTimes(op, e, start, end) ==
  start - op.vol.start <= MaxClockSkew /\ op.vol.end <= end

\* ValidateDependentOp.  A missing altitude is dereferenced there, which ends
\* the request without a commit.
ValidDependentOp(op, e, start, end) ==
  /\ CellUnionContains(e.cells, op.vol.cells)
  /\ Nil \notin {e.lo, e.hi, op.vol.lo, op.vol.hi}
  /\ op.vol.lo >= e.lo /\ op.vol.hi <= e.hi
  /\ start - op.vol.start <= MaxClockSkew
  /\ op.vol.end <= end

\* Mutant: the owner of the stored subscription is not compared.
MayPutAnySub(m, s, version) ==
  IF subs[s] = Nil THEN version = Nil ELSE version = SubVersion(s)

\* The checks of PutSubscription against the stored subscription.  The empty
\* version asks for a creation.
MayPutSub(m, s, version) ==
  IF subs[s] = Nil THEN version = Nil ELSE version = SubVersion(s) /\ subs[s].manager = m

\* Mutants: the times of the request unadjusted, the index not carried over.
PutSubRowUnadjusted(m, e, start, end, fo, fc, old) ==
  [manager |-> m, cells |-> e.cells, start |-> e.start, end |-> e.end,
   notifyOps |-> fo, notifyConstraints |-> fc, implicit |-> FALSE,
   index |-> IF old = Nil THEN 0 ELSE old.index, updated |-> now]
PutSubRowResetsIndex(m, e, start, end, fo, fc, old) ==
  [manager |-> m, cells |-> e.cells, start |-> start, end |-> end,
   notifyOps |-> fo, notifyConstraints |-> fc, implicit |-> FALSE,
   index |-> 0, updated |-> now]

\* The row PutSubscription stores.  Only the notification index survives from
\* an old row; the flag of an implicit subscription does not.
PutSubRow(m, e, start, end, fo, fc, old) ==
  [manager |-> m, cells |-> e.cells, start |-> start, end |-> end,
   notifyOps |-> fo, notifyConstraints |-> fc, implicit |-> FALSE,
   index |-> IF old = Nil THEN 0 ELSE old.index, updated |-> now]

PutSubscription(m, s, version, e, fo, fc) ==
  /\ fo \/ fc
  /\ fc => e.cells # {}                    \* SearchConstraints wants a footprint
  /\ MayPutSub(m, s, version)
  /\ LET start == AdjustedStart(e, subs[s])
         end   == AdjustedEnd(e, subs[s])
     IN  /\ ValidTimeRange(e, start, end)
         /\ \A i \in GetDependentOperationalIntents(s) :
              ValidDependentOp(ops[i], e, start, end)
         /\ subs' = [subs EXCEPT ![s] = PutSubRow(m, e, start, end, fo, fc, subs[s])]
  /\ retired' = retired \cup (IF subs[s] = Nil THEN {} ELSE {SubVersion(s)})
  /\ UNCHANGED <<now, ops, constraints, proved, told>>

\* DeleteSubscription.  The version of the request is not read.
DeleteSubscription(m, s, version) ==
  /\ subs[s] # Nil
  /\ subs[s].manager = m
  /\ GetDependentOperationalIntents(s) = {}
  /\ subs' = [subs EXCEPT ![s] = Nil]
  /\ told' = [told EXCEPT ![s] = {}]
  /\ retired' = retired \cup {SubVersion(s)}
  /\ UNCHANGED <<now, ops, constraints, proved>>

-----------------------------------------------------------------------------
(* Constraints *)

PutConstraintReference(m, c, ovn, v) ==
  /\ v.start < v.end                       \* CHECK (starts_at < ends_at)
  /\ IF constraints[c] = Nil
     THEN ovn = Nil
     ELSE constraints[c].manager = m /\ ovn = ConstraintOVN(c)
  /\ constraints[c] # Nil => constraints[c].version < MaxVersion
  /\ constraints' = [constraints EXCEPT ![c] =
       [manager |-> m,
        version |-> IF constraints[c] = Nil THEN 1 ELSE constraints[c].version + 1,
        vol |-> v, updated |-> now]]
  /\ \E found \in SearchSubscriptions(subs, NotifyVolume(constraints[c], v)) :
       LET S == NotifiedOfConstraints(subs, found) IN
       /\ BelowMaxIndex(subs, S)
       /\ subs' = Incremented(subs, S)
       /\ told' = Reported(subs, S)
  /\ retired' = retired \cup (IF constraints[c] = Nil THEN {} ELSE {ConstraintOVN(c)})
  /\ UNCHANGED <<now, ops, proved>>

\* DeleteConstraintReference.  The OVN of the request is not read.
DeleteConstraintReference(m, c, ovn) ==
  /\ constraints[c] # Nil
  /\ constraints[c].manager = m
  /\ constraints' = [constraints EXCEPT ![c] = Nil]
  /\ \E found \in SearchSubscriptions(subs, constraints[c].vol) :
       LET S == NotifiedOfConstraints(subs, found) IN
       /\ BelowMaxIndex(subs, S)
       /\ subs' = Incremented(subs, S)
       /\ told' = Reported(subs, S)
  /\ retired' = retired \cup {ConstraintOVN(c)}
  /\ UNCHANGED <<now, ops, proved>>

-----------------------------------------------------------------------------
(* The specification *)

Init ==
  /\ now = 0
  /\ ops = [i \in OpIds |-> Nil]
  /\ subs = [s \in SubIds |-> Nil]
  /\ constraints = [c \in ConstraintIds |-> Nil]
  /\ retired = {}
  /\ proved = [i \in OpIds |-> {}]
  /\ told = [s \in SubIds |-> {}]

\* A second passes.
Tick ==
  /\ now < MaxTime
  /\ now' = now + 1
  /\ UNCHANGED <<ops, subs, constraints, retired, proved, told>>

\* The OVNs of entity id that a client may have been given, and what it may
\* name as the version of id: one of them, or nothing.
Issued(id) == {ovn \in retired \cup CurrentOVNs : ovn[1] = id}
Presented(id) == {Nil} \cup Issued(id)

PutOperationalIntentReference(m, i, ovn) ==
  \E st \in RequestStates, v \in OpExtents :
    /\ MayPutOp(m, i, ovn, st, v)
    /\ \E key \in SUBSET EntityOVNs, s \in SubIds :
         \/ \E fc \in ConstraintFlags : PutOpWithImplicitSub(m, i, st, v, key, s, fc)
         \/ PutOpWithCoveringSub(m, i, st, v, key, s)
         \/ PutOpExtendingSub(m, i, st, v, key, s)

SubscriptionRequest(m, s) ==
  \/ \E version \in Presented(s), e \in SubExtents, fo \in OpFlags, fc \in ConstraintFlags :
       PutSubscription(m, s, version, e, fo, fc)
  \/ \E version \in Issued(s) : DeleteSubscription(m, s, version)

ConstraintRequest(m, c) ==
  \/ \E ovn \in Presented(c), v \in OpExtents : PutConstraintReference(m, c, ovn, v)
  \/ \E ovn \in Issued(c) : DeleteConstraintReference(m, c, ovn)

Next ==
  \/ Tick
  \/ \E m \in Managers :
       \/ \E i \in OpIds : \/ \E ovn \in Presented(i) :
                                PutOperationalIntentReference(m, i, ovn)
                           \/ \E ovn \in Issued(i) :
                                DeleteOperationalIntentReference(m, i, ovn)
       \/ \E s \in SubIds : SubscriptionRequest(m, s)
       \/ \E c \in ConstraintIds : ConstraintRequest(m, c)

Spec == Init /\ [][Next]_vars

-----------------------------------------------------------------------------
(* Properties *)

\* Every table holds well-formed rows, and every OVN ever ended was issued in
\* a second that has come.
TypeOK ==
  /\ now \in Nat
  /\ ops \in [OpIds -> Op \cup {Nil}]
  /\ subs \in [SubIds -> Sub \cup {Nil}]
  /\ constraints \in [ConstraintIds -> Constraint \cup {Nil}]
  /\ retired \subseteq OVNs
  /\ proved \in [OpIds -> SUBSET OVNs]
  /\ told \in [SubIds -> SUBSET Nat]

\* Every operational intent is supported by a subscription that exists and
\* belongs to the same USS: no order of deletions, re-creations of an id and
\* changes of subscription leaves it dangling, and the branch
\* "OperationalIntent's Subscription missing from repo" of its deletion is dead.
SupportExists ==
  \A i \in OpIds : ops[i] # Nil =>
    subs[ops[i].sub] # Nil /\ subs[ops[i].sub].manager = ops[i].manager

\* That subscription covers its operational intents in space and time, up to
\* the five minutes ValidateDependentOp allows at the start, whichever of the
\* operational intents and the subscription was written last.
SupportCovers ==
  \A i \in OpIds : ops[i] # Nil =>
    LET sub == subs[ops[i].sub] IN
    /\ CellUnionContains(sub.cells, ops[i].vol.cells)
    /\ sub.start - ops[i].vol.start <= MaxClockSkew
    /\ ops[i].vol.end <= sub.end

\* Of two conflicting operational intents that both had to show a key, one was
\* last written with a key that holds the current OVN of the other.  The key
\* check looks only one way, so this rests on every later write and every
\* change of state checking again.
MutualAwareness ==
  \A i, j \in OpIds :
    /\ i # j /\ ops[i] # Nil /\ ops[j] # Nil
    /\ RequiresKey(ops[i].state) /\ RequiresKey(ops[j].state)
    /\ MatchesOp(ops[i], ops[j].vol)
    => OpOVN(j) \in proved[i] \/ OpOVN(i) \in proved[j]

\* The notification indices reported of a subscription's row are 1, 2, ... up
\* to its stored index, without a gap: neither an update, an extension or a new
\* subscription under the same id nor the batch increment loses or repeats one.
\* That each index is reported under the subscription whose row it comes from
\* is not said, and not assured.
NotificationGapFree ==
  \A s \in SubIds : subs[s] # Nil => told[s] = 1..subs[s].index

\* The volumes a step takes an entity from and to.
VolumesOf(row) == IF row = Nil THEN {} ELSE {row.vol}

\* Whether volume v meets subscription row sub in space and time.
Concerns(sub, v) ==
  /\ sub # Nil
  /\ Area(sub.cells) \cap v.cells # {}
  /\ TimesOverlap(sub.start, sub.end, v)

\* The two halves of NotifiesAffected, as predicates on a step.
OpChangesNotified ==
  \A i \in OpIds, s \in SubIds :
    /\ ops'[i] # ops[i]
    /\ \E v \in VolumesOf(ops[i]) \cup VolumesOf(ops'[i]) : Concerns(subs[s], v)
    /\ subs[s].notifyOps
    /\ subs'[s] # Nil
    => subs'[s].index = subs[s].index + 1

ConstraintChangesNotified ==
  \A c \in ConstraintIds, s \in SubIds :
    /\ constraints'[c] # constraints[c]
    /\ \E v \in VolumesOf(constraints[c]) \cup VolumesOf(constraints'[c]) :
         Concerns(subs[s], v)
    /\ subs[s].notifyConstraints
    => subs'[s].index = subs[s].index + 1

\* A step that changes an entity, deletes it or moves it notifies, once, every
\* subscription that asked for entities of its kind and meets the place it
\* came from or the place it went to, and whose row outlives the step.
NotifiesAffected == [][OpChangesNotified /\ ConstraintChangesNotified]_vars

\* The volumes of operational intent j, before or after a step that changes it,
\* that meet another operational intent i which the step leaves alone.
ChangesMeeting(i, j) ==
  {v \in VolumesOf(ops[j]) \cup VolumesOf(ops'[j]) :
     /\ i # j /\ ops[i] # Nil /\ ops'[i] = ops[i]
     /\ ops'[j] # ops[j]
     /\ MatchesOp(ops[i], v)}

SupportNotified(i) == subs'[ops[i].sub].index = subs[ops[i].sub].index + 1

\* A supporting subscription that the DSS made for an operational intent, or
\* that asks for operational intents, keeps the USS of its operational intent
\* informed: when another operational intent that meets it appears, changes,
\* moves or goes, the subscription is notified in the same step, unless all that
\* meets it is over within the skew by which ValidateDependentOp lets a
\* subscription start late.
ListeningOperatorInformed ==
  [][\A i, j \in OpIds : \A v \in ChangesMeeting(i, j) :
       /\ subs[ops[i].sub].implicit \/ subs[ops[i].sub].notifyOps
       /\ v.end - ops[i].vol.start >= MaxClockSkew
       => SupportNotified(i)]_vars

-----------------------------------------------------------------------------
(* What the API documentation says and the code does not do *)

\* An implicit subscription is deleted with the operational intent it was
\* created for (scd.proto:627), so it never stays behind without a dependent.
ImplicitHasDependent ==
  \A s \in SubIds : subs[s] # Nil /\ subs[s].implicit
    => GetDependentOperationalIntents(s) # {}

\* The subscription id of an operational intent keeps its USS informed of the
\* operational intents that may come to conflict with it (scd.proto:513),
\* whichever subscription it names.
OperatorInformed ==
  [][\A i, j \in OpIds : ChangesMeeting(i, j) # {} => SupportNotified(i)]_vars

\* A version identifies one version of one subscription (scd.proto:644), so a
\* version that was replaced or deleted does not become current again.
OVNFencing == CurrentOVNs \cap retired = {}

=============================================================================
