-------------------------- MODULE VertiportSchedule --------------------------
(***************************************************************************)
(* The arithmetic of time periods behind the schedule queries of a         *)
(* vertiport (pkg/vrp/models/models.go): which parts of a period stay free *)
(* when busy periods are cut out of it, and how many of the busy periods   *)
(* overlap.                                                                *)
(***************************************************************************)
EXTENDS Integers, SequencesExt

\* TimePeriod: the instants from "from" on and before "to".
Period == [from : Int, to : Int]

\* Mutant: periods that only touch intersect too.
IntersectsClosed(tp, other) == ~(tp.from > other.to \/ tp.to < other.from)

IntersectsWith(tp, other) == ~(tp.from >= other.to \/ tp.to <= other.from)

\* The first branch of Cut: nothing of tp is left.
CutCompletely(tp, cut) ==
  \/ tp.from > cut.from /\ tp.to < cut.to
  \/ tp.from = cut.from /\ tp.to = cut.to

\* Whether Cut ends in one of its branches.  It fails with "Time period to cut
\* is wrong" when "cut" covers tp and shares exactly one end with it.
Cuttable(tp, cut) ==
  CutCompletely(tp, cut) \/ tp.from < cut.from \/ cut.to < tp.to

\* Mutant: the part before the cut is lost when there is one after it.
CutKeepsTail(tp, cut) ==
  IF CutCompletely(tp, cut) THEN {}
  ELSE IF cut.to < tp.to THEN {[from |-> cut.to, to |-> tp.to]}
  ELSE {[from |-> tp.from, to |-> cut.from]}

\* What Cut leaves of tp: the part before "cut" and the part after it.
Cut(tp, cut) ==
  IF CutCompletely(tp, cut) THEN {}
  ELSE (IF tp.from < cut.from THEN {[from |-> tp.from, to |-> cut.from]} ELSE {})
         \cup (IF cut.to < tp.to THEN {[from |-> cut.to, to |-> tp.to]} ELSE {})

\* One round of ComputeFreeTimePeriods, on the free periods that are left.
CanCutOut(free, busy) == \A p \in free : IntersectsWith(p, busy) => Cuttable(p, busy)

CutOut(free, busy) ==
  UNION {IF IntersectsWith(p, busy) THEN Cut(p, busy) ELSE {p} : p \in free}

\* ComputeFreeTimePeriods: the busy periods are cut out of w one after the
\* other, until one cannot be.
ComputeFreeTimePeriods(busy, w) ==
  LET free[k \in 0 .. Len(busy)] == IF k = 0 THEN {w} ELSE CutOut(free[k - 1], busy[k])
  IN  [ok |-> \A k \in 1 .. Len(busy) : CanCutOut(free[k - 1], busy[k]),
       free |-> free[Len(busy)]]

\* The changes in the number of used places: <<k, 1>> where the k-th busy
\* period begins and <<k, -1>> where it ends, if it reaches into w.
Changes(busy, w) == {k \in DOMAIN busy : IntersectsWith(w, busy[k])} \X {1, -1}

TimeOf(busy, change) == IF change[2] = 1 THEN busy[change[1]].from ELSE busy[change[1]].to

\* The orders in which sort.Slice may leave the changes: by time, and those of
\* one time in any order, for it is not stable.
SortedChanges(busy, w) ==
  {s \in SetToSeqs(Changes(busy, w)) :
     \A i, j \in DOMAIN s : i < j => TimeOf(busy, s[i]) <= TimeOf(busy, s[j])}

\* The largest number of used places that a list of changes runs through.
MostUsed(s) ==
  LET used[j \in 0 .. Len(s)] == IF j = 0 THEN 0 ELSE used[j - 1] + s[j][2]
  IN  Max(Range(used))

\* ComputeNumberOfUsedParkingPlaces: what it may return.
ComputeNumberOfUsedParkingPlaces(busy, w) == {MostUsed(s) : s \in SortedChanges(busy, w)}

\* Whether instant t lies in period p, and in one of a set of periods.
In(t, p) == p.from <= t /\ t < p.to
InSome(t, periods) == \E p \in periods : In(t, p)

=============================================================================
