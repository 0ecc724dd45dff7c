--------------------------------- MODULE RID ---------------------------------
(***************************************************************************)
(* Remote identification (pkg/rid): identification service areas (ISAs),   *)
(* the subscriptions of those who want to know of them, and the garbage    *)
(* collector that every DSS instance runs beside its handlers.             *)
(*                                                                         *)
(* A write is one serializable transaction and one step; a rejected        *)
(* request is no step.  Two things are not one transaction: the handler of *)
(* a subscription searches the ISAs of its answer after its transaction    *)
(* has committed, and the collector lists expired rows in one statement    *)
(* and deletes them in others.                                             *)
(***************************************************************************)
EXTENDS Volumes, FiniteSets

CONSTANTS
  Owners,        \* the USSs, as named by the sub claim of their tokens
  ISAIds,        \* ids of ISAs, chosen by clients
  SubIds,        \* ids of subscriptions, chosen by clients
  Servers,       \* the DSS instances; each has a locality of its own
  ISAExtents,    \* the extents clients give to ISAs
  SubExtents,    \* the extents clients give to subscriptions
  MaxClockSkew,             \* maxClockSkew, in units of the model's clock
  MaxSubscriptionDuration,  \* maxSubscriptionDuration, in the same units
  MaxSubscriptionsPerArea,  \* maxSubscriptionsPerArea
  ExpiredDuration,          \* expiredDurationInMin, in the same units
  MaxResultLimit,           \* the LIMIT of the search queries
  MaxTime,       \* bound on the clock
  MaxWrites,     \* bound on the writes clients make
  MaxCrashes     \* bound on the crashes of servers

\* A requested extent: a footprint of at least one cell, times that may be absent.
Extent == [cells : SUBSET Cells \ {{}}, start : OptInt, end : OptInt]

ASSUME ExtentsAssumption ==
  /\ ISAExtents \subseteq Extent
  /\ SubExtents \subseteq Extent

ASSUME BoundsAssumption ==
  /\ {MaxClockSkew, MaxSubscriptionDuration, MaxSubscriptionsPerArea} \subseteq Nat
  /\ ExpiredDuration \in Nat \ {0} /\ MaxResultLimit \in Nat
  /\ {MaxTime, MaxWrites, MaxCrashes} \subseteq Nat

VARIABLES
  now,      \* the clock
  isas,     \* table identification_service_areas
  subs,     \* table subscriptions
  gc,       \* per server, where its garbage collector stands and the rows it listed
  stamp,    \* the last value given to updated_at, which is the version of a row
  crashes   \* how many crashes there were

\* Observations of what clients were told; no guard of a write reads them.
VARIABLES
  answered,  \* the subscriptions whose last write was answered with the ISAs found
  known      \* per subscription and ISA, what its subscriber was told last

vars == <<now, isas, subs, gc, stamp, crashes, answered, known>>

\* A row of either table.  writer is the locality of the last server to write it.
Row == [owner : Owners, cells : SUBSET Cells, start : Int, end : Int,
        writer : Servers, version : Nat]

ASSUME NilIsNoRow == Nil \notin Row

ASSUME IdsAssumption == IsFiniteSet(ISAIds) /\ IsFiniteSet(SubIds)

\* What a subscriber knows of an ISA: nothing, its current version or an older one.
Knowledge == {"nothing", "current", "stale"}

\* Where a collector stands: not running, deleting ISAs, about to list
\* subscriptions, deleting subscriptions.
Phases == {"idle", "isas", "list", "subs"}

Idle == [pc |-> "idle", rows |-> {}]

-----------------------------------------------------------------------------
(* Time ranges and queries *)

\* AdjustTimeRange: an absent start is that of the stored row, or now.
AdjustedStart(e, old) ==
  IF e.start # Nil THEN e.start ELSE IF old = Nil THEN now ELSE old.start

\* AdjustTimeRange of an ISA: an absent end is that of the stored row, if any.
AdjustedISAEnd(e, old) == IF e.end = Nil /\ old # Nil THEN old.end ELSE e.end

\* AdjustTimeRange of a subscription, which may last a day.
AdjustedSubEnd(e, old) ==
  IF AdjustedISAEnd(e, old) # Nil THEN AdjustedISAEnd(e, old)
  ELSE AdjustedStart(e, old) + MaxSubscriptionDuration

\* What both AdjustTimeRange and CHECK (starts_at < ends_at) accept.
ValidTimeRange(e, start, end) ==
  /\ e.start # Nil => now - e.start <= MaxClockSkew
  /\ end # Nil
  /\ start < end

Live(row) == row # Nil /\ row.end >= now

Limited(matching) ==
  IF Cardinality(matching) <= MaxResultLimit
  THEN {matching}
  ELSE {S \in SUBSET matching : Cardinality(S) = MaxResultLimit}

\* Mutant: ISAs that have not started are left out.
SearchStartedISAs(cells) ==
  Limited({i \in ISAIds : Live(isas[i]) /\ SharesCellId(isas[i].cells, cells)
                                       /\ isas[i].start <= now})

\* SearchISAs with no earliest and no latest time: the start is not looked at.
SearchISAs(cells) ==
  Limited({i \in ISAIds : Live(isas[i]) /\ SharesCellId(isas[i].cells, cells)})

\* Mutant: subscriptions that have not started do not count.
CountStartedInCell(owner, c) ==
  Cardinality({s \in SubIds : Live(subs[s]) /\ subs[s].owner = owner
                                /\ c \in subs[s].cells /\ subs[s].start <= now})

CountInCell(owner, c) ==
  Cardinality({s \in SubIds : Live(subs[s]) /\ subs[s].owner = owner /\ c \in subs[s].cells})

\* MaxSubscriptionCountInCellsByOwner(...) < maxSubscriptionsPerArea
RoomFor(owner, cells) ==
  \A c \in cells : CountInCell(owner, c) < MaxSubscriptionsPerArea

-----------------------------------------------------------------------------
(* ISAs *)

\* Mutant: the union is not brought back to level 13, so that a completed
\* group of siblings is searched by the id of its parent alone.
AffectedCellsNormalized(old, cells) ==
  IF old = Nil THEN cells ELSE CellUnionFromUnion(old.cells, cells)

\* CellUnionFromUnion normalises the old and the new cells, Levelify splits
\* the parents up again.
AffectedCells(old, cells) ==
  IF old = Nil THEN cells ELSE Area(CellUnionFromUnion(old.cells, cells))

\* UpdateNotificationIdxsInCells: the subscriptions whose index is
\* incremented and who are named in the answer.
NotifiedIn(cells) == {s \in SubIds : Live(subs[s]) /\ SharesCellId(subs[s].cells, cells)}

\* What subscribers know after ISA i becomes one over "cells" ({} for a
\* deletion) and those of "notified" are told so.
KnownAfter(i, notified, cells) ==
  [s \in SubIds |-> [known[s] EXCEPT ![i] =
     IF s \in notified
     THEN IF SharesCellId(subs[s].cells, cells) THEN "current" ELSE "nothing"
     ELSE IF @ = "nothing" THEN @ ELSE "stale"]]

\* A bound of the model, not of the code.
MayWrite == stamp < MaxWrites

NewISA(o, e, old, g) ==
  [owner |-> o, cells |-> e.cells, start |-> AdjustedStart(e, old),
   end |-> AdjustedISAEnd(e, old), writer |-> g, version |-> stamp + 1]

\* InsertISA and UpdateISA on server g; the version an update names is the
\* current one.  An answer that is lost is the client's affair: it can ask
\* again and no table depends on it.
PutISA(o, i, e, g) ==
  /\ MayWrite
  /\ isas[i] # Nil => isas[i].owner = o
  /\ ValidTimeRange(e, AdjustedStart(e, isas[i]), AdjustedISAEnd(e, isas[i]))
  /\ isas' = [isas EXCEPT ![i] = NewISA(o, e, @, g)]
  /\ known' = KnownAfter(i, NotifiedIn(AffectedCells(isas[i], e.cells)), e.cells)
  /\ stamp' = stamp + 1
  /\ UNCHANGED <<now, subs, gc, crashes, answered>>

DeleteISA(o, i) ==
  /\ MayWrite
  /\ isas[i] # Nil
  /\ isas[i].owner = o
  /\ isas' = [isas EXCEPT ![i] = Nil]
  /\ known' = KnownAfter(i, NotifiedIn(isas[i].cells), {})
  /\ stamp' = stamp + 1
  /\ UNCHANGED <<now, subs, gc, crashes, answered>>

-----------------------------------------------------------------------------
(* Subscriptions *)

KnowsNothing == [i \in ISAIds |-> "nothing"]

\* Mutant: a subscription written without its writer.
NewSubWithoutWriter(o, e, old, g) ==
  [owner |-> o, cells |-> e.cells, start |-> AdjustedStart(e, old),
   end |-> AdjustedSubEnd(e, old), writer |-> Nil, version |-> stamp + 1]

NewSub(o, e, old, g) ==
  [owner |-> o, cells |-> e.cells, start |-> AdjustedStart(e, old),
   end |-> AdjustedSubEnd(e, old), writer |-> g, version |-> stamp + 1]

\* InsertSubscription and UpdateSubscription, up to the commit.  An update
\* counts the subscription itself among those that are there.
PutSubscription(o, s, e, g) ==
  /\ MayWrite
  /\ subs[s] # Nil => subs[s].owner = o
  /\ ValidTimeRange(e, AdjustedStart(e, subs[s]), AdjustedSubEnd(e, subs[s]))
  /\ AdjustedSubEnd(e, subs[s]) - AdjustedStart(e, subs[s]) <= MaxSubscriptionDuration
  /\ RoomFor(o, e.cells)
  /\ subs' = [subs EXCEPT ![s] = NewSub(o, e, @, g)]
  /\ answered' = answered \ {s}
  /\ known' = [known EXCEPT ![s] = KnowsNothing]
  /\ stamp' = stamp + 1
  /\ UNCHANGED <<now, isas, gc, crashes>>

\* The rest of CreateSubscription and UpdateSubscription: the ISAs in the
\* subscription's cells, and the answer.  It fails when its server crashes,
\* the search fails or the answer is lost: the step is then never taken.
AnswerSubscription(s) ==
  /\ subs[s] # Nil
  /\ s \notin answered
  /\ \E found \in SearchISAs(subs[s].cells) :
       known' = [known EXCEPT ![s] =
                   [i \in ISAIds |-> IF i \in found THEN "current" ELSE @[i]]]
  /\ answered' = answered \cup {s}
  /\ UNCHANGED <<now, isas, subs, gc, stamp, crashes>>

DeleteSubscription(o, s) ==
  /\ MayWrite
  /\ subs[s] # Nil
  /\ subs[s].owner = o
  /\ subs' = [subs EXCEPT ![s] = Nil]
  /\ answered' = answered \ {s}
  /\ known' = [known EXCEPT ![s] = KnowsNothing]
  /\ stamp' = stamp + 1
  /\ UNCHANGED <<now, isas, gc, crashes>>

-----------------------------------------------------------------------------
(* The garbage collector *)

Expired(row) == row # Nil /\ row.end + ExpiredDuration <= now

\* Mutant: a writer that is compared with NULL, which equals nothing.
ListExpiredOfNullWriter(ids, table, g) == {}

\* ListExpiredISAs and ListExpiredSubscriptions: the ids and the versions of
\* the expired rows that server g's locality wrote.
ListExpired(ids, table, g) ==
  {<<r, table[r].version>> : r \in {q \in ids : Expired(table[q]) /\ table[q].writer = g}}

\* DeleteRIDExpiredRecords starts, unless the last run is still going on.
ListExpiredISAs(g) ==
  /\ gc[g].pc = "idle"
  /\ \E rows \in Limited(ListExpired(ISAIds, isas, g)) :
       gc' = [gc EXCEPT ![g] = [pc |-> "isas", rows |-> rows]]
  /\ UNCHANGED <<now, isas, subs, stamp, crashes, answered, known>>

\* Mutant: DELETE ... WHERE id = $1, whatever the version.
DeletesAnyVersion(table, r) == table[r[1]] # Nil

\* DELETE ... WHERE id = $1 AND updated_at = $2 finds its row.
Deletes(table, r) == table[r[1]] # Nil /\ table[r[1]].version = r[2]

\* The collector tries the rows one by one and stops at the first one that
\* it deletes: it deletes at most one ISA in a run.
CollectISA(g) ==
  /\ gc[g].pc = "isas"
  /\ \E r \in gc[g].rows :
       IF Deletes(isas, r)
       THEN /\ isas' = [isas EXCEPT ![r[1]] = Nil]
            /\ known' = [s \in SubIds |-> [known[s] EXCEPT ![r[1]] =
                 IF @ = "current" /\ Live(isas[r[1]]) THEN "stale" ELSE "nothing"]]
            /\ gc' = [gc EXCEPT ![g] = [pc |-> "list", rows |-> {}]]
       ELSE /\ gc' = [gc EXCEPT ![g].rows = @ \ {r}]
            /\ UNCHANGED <<isas, known>>
  /\ UNCHANGED <<now, subs, stamp, crashes, answered>>

ListExpiredSubscriptions(g) ==
  /\ \/ gc[g].pc = "list"
     \/ gc[g].pc = "isas" /\ gc[g].rows = {}
  /\ gc' = [gc EXCEPT ![g] = [pc |-> "subs", rows |-> ListExpired(SubIds, subs, g)]]
  /\ UNCHANGED <<now, isas, subs, stamp, crashes, answered, known>>

CollectSubscription(g) ==
  /\ gc[g].pc = "subs"
  /\ \E r \in gc[g].rows :
       IF Deletes(subs, r)
       THEN /\ subs' = [subs EXCEPT ![r[1]] = Nil]
            /\ answered' = answered \ {r[1]}
            /\ known' = [known EXCEPT ![r[1]] = KnowsNothing]
            /\ gc' = [gc EXCEPT ![g] = Idle]
       ELSE /\ gc' = [gc EXCEPT ![g].rows = @ \ {r}]
            /\ UNCHANGED <<subs, answered, known>>
  /\ UNCHANGED <<now, isas, stamp, crashes>>

EndCollection(g) ==
  /\ gc[g].pc = "subs"
  /\ gc[g].rows = {}
  /\ gc' = [gc EXCEPT ![g] = Idle]
  /\ UNCHANGED <<now, isas, subs, stamp, crashes, answered, known>>

\* One step of a run of server g's collector.
Collect(g) ==
  \/ ListExpiredISAs(g) \/ CollectISA(g)
  \/ ListExpiredSubscriptions(g) \/ CollectSubscription(g) \/ EndCollection(g)

\* Server g crashes and restarts, or a statement of its collector fails: the
\* run is over.
Crash(g) ==
  /\ crashes < MaxCrashes
  /\ gc[g].pc # "idle"
  /\ gc' = [gc EXCEPT ![g] = Idle]
  /\ crashes' = crashes + 1
  /\ UNCHANGED <<now, isas, subs, stamp, answered, known>>

-----------------------------------------------------------------------------
(* The specification *)

Init ==
  /\ now = 0
  /\ isas = [i \in ISAIds |-> Nil]
  /\ subs = [s \in SubIds |-> Nil]
  /\ gc = [g \in Servers |-> Idle]
  /\ stamp = 0
  /\ crashes = 0
  /\ answered = {}
  /\ known = [s \in SubIds |-> KnowsNothing]

Tick ==
  /\ now < MaxTime
  /\ now' = now + 1
  /\ UNCHANGED <<isas, subs, gc, stamp, crashes, answered, known>>

Next ==
  \/ \E o \in Owners, i \in ISAIds, e \in ISAExtents, g \in Servers : PutISA(o, i, e, g)
  \/ \E o \in Owners, i \in ISAIds : DeleteISA(o, i)
  \/ \E o \in Owners, s \in SubIds, e \in SubExtents, g \in Servers : PutSubscription(o, s, e, g)
  \/ \E s \in SubIds : AnswerSubscription(s)
  \/ \E o \in Owners, s \in SubIds : DeleteSubscription(o, s)
  \/ \E g \in Servers : Collect(g) \/ Crash(g)
  \/ Tick

\* cron starts a run of every collector again and again, and a run goes on
\* by itself.  Nothing forces clients, crashes or the end of an answer.
Fairness == \A g \in Servers : WF_vars(Collect(g))

Spec == Init /\ [][Next]_vars /\ Fairness

-----------------------------------------------------------------------------
(* Properties *)

\* The tables hold rows, collectors hold ids and versions of rows they read.
TypeOK ==
  /\ now \in 0..MaxTime
  /\ isas \in [ISAIds -> Row \cup {Nil}]
  /\ subs \in [SubIds -> Row \cup {Nil}]
  /\ gc \in [Servers -> [pc : Phases, rows : SUBSET ((ISAIds \cup SubIds) \X Nat)]]
  /\ stamp \in 0..MaxWrites
  /\ crashes \in 0..MaxCrashes
  /\ answered \subseteq SubIds
  /\ known \in [SubIds -> [ISAIds -> Knowledge]]

\* A subscriber whose subscription was answered and has not ended knows the
\* current version of every ISA in its cells that has not ended: the search of
\* the answer comes after the commit of the subscription, so no ISA falls
\* between the answer and the notifications.
SubscribersKnowISAs ==
  \A s \in answered, i \in ISAIds :
    Live(subs[s]) /\ Live(isas[i]) /\ SharesCellId(subs[s].cells, isas[i].cells)
      => known[s][i] = "current"

\* Nor does it hold an ISA for current that was changed, moved away or deleted:
\* a write notifies the cells that the ISA leaves as well as those it enters.
NoStaleISA ==
  \A s \in SubIds, i \in ISAIds : Live(subs[s]) => known[s][i] # "stale"

\* No owner has more than maxSubscriptionsPerArea subscriptions that have not
\* ended in one cell, whatever was inserted, moved, prolonged or collected.
SubscriptionsPerArea ==
  \A o \in Owners, c \in Cells :
    Cardinality({s \in SubIds : Live(subs[s]) /\ subs[s].owner = o /\ c \in subs[s].cells})
      <= MaxSubscriptionsPerArea

\* A collector deletes only rows that expired and that its locality wrote last,
\* even when an owner prolongs a row after the collector has listed it.
CollectsOnlyExpired ==
  [][gc' # gc =>
       /\ \A i \in ISAIds : isas[i] # Nil /\ isas'[i] = Nil =>
            Expired(isas[i]) /\ gc'[isas[i].writer] # gc[isas[i].writer]
       /\ \A s \in SubIds : subs[s] # Nil /\ subs'[s] = Nil =>
            Expired(subs[s]) /\ gc'[subs[s].writer] # gc[subs[s].writer]]_vars

\* A row that expired is collected in the end, or its owner writes it again,
\* although a run of a collector deletes at most one row of each table.
ExpiredAreCollected ==
  /\ \A i \in ISAIds : Expired(isas[i]) ~> ~Expired(isas[i])
  /\ \A s \in SubIds : Expired(subs[s]) ~> ~Expired(subs[s])

=============================================================================
