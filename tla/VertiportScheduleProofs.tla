------------------------ MODULE VertiportScheduleProofs ------------------------
(***************************************************************************)
(* Proofs about the arithmetic of a vertiport's schedule, for lists of     *)
(* busy periods of any length: the free times are exact, and the number of *)
(* used parking places is bounded by the overlaps of the periods.          *)
(*                                                                         *)
(* The computations are loops over a list, here recursive functions.  That *)
(* they conform to their definitions, and what they compute, is shown by   *)
(* induction; the principle itself, LeastElement and Induction, follows    *)
(* from the natural numbers being well-founded.                            *)
(***************************************************************************)
EXTENDS VertiportSchedule, FiniteSetTheorems, SequenceTheorems, WellFoundedInduction, TLAPS

-----------------------------------------------------------------------------
(* Induction and recursion *)

LEMMA LeastElement ==
  ASSUME NEW T \in SUBSET Nat, T # {}
  PROVE  \E n \in T : \A m \in T : n <= m
<1> DEFINE R == {ss \in Nat \X Nat : ss[1] < ss[2]}
<1>1. IsWellFoundedOn(R, Nat)  BY NatLessThanWellFounded DEF OpToRel
<1> HIDE DEF R
<1>2. PICK x \in T : \A y \in T : <<y, x>> \notin R  BY <1>1, WFMin
<1>3. \A y \in T : ~(y < x)  BY <1>2 DEF R
<1> QED  BY <1>3

\* A set that holds 0 and with every number below n the next one holds all up to n.
LEMMA Induction ==
  ASSUME NEW S, NEW n \in Nat, 0 \in S, \A k \in 1 .. n : k - 1 \in S => k \in S
  PROVE  0 .. n \subseteq S
<1> SUFFICES ASSUME ~(0 .. n \subseteq S) PROVE FALSE  OBVIOUS
<1>1. PICK m \in (0 .. n) \ S : \A k \in (0 .. n) \ S : m <= k
  <2>1. (0 .. n) \ S \in SUBSET Nat /\ (0 .. n) \ S # {}  OBVIOUS
  <2> QED  BY <2>1, LeastElement
<1>2. m # 0 /\ m \in 1 .. n /\ m - 1 \in 0 .. n  OBVIOUS
<1>3. m - 1 \in S  BY <1>1, <1>2
<1> QED  BY <1>2, <1>3

\* The steps that make, of a value in D and k \in 1 .. n, the k-th value, and
\* the running values f[0], ..., f[n] they make.
Steps(D, n) == [D \X (1 .. n) -> D]
Runs(D, n, base, step) ==
  {f \in [0 .. n -> D] : f[0] = base /\ \A k \in 1 .. n : f[k] = step[<<f[k - 1], k>>]}

\* There are such running values.
LEMMA Recursion ==
  ASSUME NEW n \in Nat, NEW D, NEW base \in D, NEW step \in Steps(D, n)
  PROVE  \E f : f \in Runs(D, n, base, step)
<1> DEFINE RunsTo(f, m) == /\ f \in [0 .. n -> D] /\ f[0] = base
                           /\ \A k \in 1 .. m : f[k] = step[<<f[k - 1], k>>]
           S == {m \in 0 .. n : \E f : RunsTo(f, m)}
<1>1. 0 \in S
  <2> DEFINE f == [k \in 0 .. n |-> base]
  <2>1. RunsTo(f, 0)  OBVIOUS
  <2> HIDE DEF RunsTo, f
  <2> QED  BY <2>1
<1>2. ASSUME NEW m \in 1 .. n, m - 1 \in S  PROVE m \in S
  <2>1. PICK f : RunsTo(f, m - 1)  BY <1>2
  <2> DEFINE h == [k \in 0 .. n |-> IF k = m THEN step[<<f[m - 1], m>>] ELSE f[k]]
  <2>2. m - 1 \in 0 .. n /\ f[m - 1] \in D /\ <<f[m - 1], m>> \in D \X (1 .. n)  BY <2>1
  <2>3. h \in [0 .. n -> D] /\ h[0] = base  BY <2>1, <2>2 DEF Steps
  <2>4. ASSUME NEW k \in 1 .. m  PROVE h[k] = step[<<h[k - 1], k>>]
    <3>1. k - 1 \in 0 .. n /\ k - 1 # m /\ k \in 0 .. n  OBVIOUS
    <3>2. h[k - 1] = f[k - 1]  BY <3>1
    <3>3. CASE k = m  BY <3>1, <3>2, <3>3
    <3>4. CASE k # m
      <4>1. k \in 1 .. (m - 1)  BY <3>4
      <4> QED  BY <2>1, <3>1, <3>2, <4>1
    <3> QED  BY <3>3, <3>4
  <2>5. RunsTo(h, m)  BY <2>3, <2>4
  <2> HIDE DEF RunsTo, h
  <2> QED  BY <2>5
<1> HIDE DEF S
<1>3. n \in S  BY <1>1, <1>2, Induction
<1>4. PICK f : RunsTo(f, n)  BY <1>3 DEF S
<1> QED  BY <1>4 DEF Runs

-----------------------------------------------------------------------------
(* Periods *)

\* The periods that are not empty.
NonEmpty == {p \in Period : p.from < p.to}

\* Cut leaves periods that are not empty, and of the instants of the period
\* exactly those outside the busy one.
LEMMA CutExact ==
  ASSUME NEW tp \in NonEmpty, NEW c \in NonEmpty, IntersectsWith(tp, c), Cuttable(tp, c)
  PROVE  /\ Cut(tp, c) \subseteq NonEmpty
         /\ \A p \in Cut(tp, c) : tp.from <= p.from /\ p.to <= tp.to
         /\ \A t \in Int : InSome(t, Cut(tp, c)) <=> In(t, tp) /\ ~In(t, c)
<1>1. /\ tp.from \in Int /\ tp.to \in Int /\ tp.from < tp.to
      /\ c.from \in Int /\ c.to \in Int /\ c.from < c.to
      /\ tp.from < c.to /\ c.from < tp.to
  BY DEF NonEmpty, Period, IntersectsWith
<1>2. CASE CutCompletely(tp, c)
  <2>1. Cut(tp, c) = {}  BY <1>2 DEF Cut
  <2>2. ASSUME NEW t \in Int, In(t, tp)  PROVE In(t, c)
    BY <1>1, <1>2, <2>2 DEF CutCompletely, In
  <2> QED  BY <2>1, <2>2 DEF InSome
<1>3. CASE ~CutCompletely(tp, c)
  <2> DEFINE before == IF tp.from < c.from THEN {[from |-> tp.from, to |-> c.from]} ELSE {}
             after == IF c.to < tp.to THEN {[from |-> c.to, to |-> tp.to]} ELSE {}
  <2>1. Cut(tp, c) = before \cup after  BY <1>3 DEF Cut
  <2>2. before \subseteq NonEmpty /\ \A p \in before : tp.from <= p.from /\ p.to <= tp.to
    BY <1>1 DEF NonEmpty, Period
  <2>3. after \subseteq NonEmpty /\ \A p \in after : tp.from <= p.from /\ p.to <= tp.to
    BY <1>1 DEF NonEmpty, Period
  <2>4. ASSUME NEW t \in Int  PROVE InSome(t, before) <=> tp.from <= t /\ t < c.from
    <3>1. CASE tp.from < c.from
      <4>1. InSome(t, before) <=> In(t, [from |-> tp.from, to |-> c.from])  BY <3>1 DEF InSome
      <4> QED  BY <4>1 DEF In
    <3>2. CASE ~(tp.from < c.from)
      <4>1. ~InSome(t, before)  BY <3>2 DEF InSome
      <4> QED  BY <1>1, <3>2, <4>1
    <3> QED  BY <3>1, <3>2
  <2>5. ASSUME NEW t \in Int  PROVE InSome(t, after) <=> c.to <= t /\ t < tp.to
    <3>1. CASE c.to < tp.to
      <4>1. InSome(t, after) <=> In(t, [from |-> c.to, to |-> tp.to])  BY <3>1 DEF InSome
      <4> QED  BY <4>1 DEF In
    <3>2. CASE ~(c.to < tp.to)
      <4>1. ~InSome(t, after)  BY <3>2 DEF InSome
      <4> QED  BY <1>1, <3>2, <4>1
    <3> QED  BY <3>1, <3>2
  <2>6. \A t \in Int : InSome(t, before \cup after) <=> InSome(t, before) \/ InSome(t, after)
    BY DEF InSome
  <2> HIDE DEF before, after
  <2>7. ASSUME NEW t \in Int
        PROVE  (tp.from <= t /\ t < c.from) \/ (c.to <= t /\ t < tp.to) <=> In(t, tp) /\ ~In(t, c)
    BY <1>1 DEF In
  <2>8. \A t \in Int : InSome(t, Cut(tp, c)) <=> In(t, tp) /\ ~In(t, c)
    BY <2>1, <2>4, <2>5, <2>6, <2>7
  <2> QED  BY <2>1, <2>2, <2>3, <2>8
<1> QED  BY <1>2, <1>3

\* One round of ComputeFreeTimePeriods that does not fail: of the free
\* instants exactly those outside the busy period stay free, and the periods
\* they are in are not empty and no longer than before.
THEOREM CutOutExact ==
  ASSUME NEW free \in SUBSET NonEmpty, NEW busy \in NonEmpty, CanCutOut(free, busy)
  PROVE  /\ CutOut(free, busy) \subseteq NonEmpty
         /\ \A p \in CutOut(free, busy) : \E q \in free : q.from <= p.from /\ p.to <= q.to
         /\ \A t \in Int : InSome(t, CutOut(free, busy)) <=> InSome(t, free) /\ ~In(t, busy)
<1> DEFINE left(q) == IF IntersectsWith(q, busy) THEN Cut(q, busy) ELSE {q}
<1>1. ASSUME NEW q \in free
      PROVE  /\ left(q) \subseteq NonEmpty
             /\ \A p \in left(q) : q.from <= p.from /\ p.to <= q.to
             /\ \A t \in Int : InSome(t, left(q)) <=> In(t, q) /\ ~In(t, busy)
  <2>1. CASE IntersectsWith(q, busy)
    <3>1. q \in NonEmpty /\ Cuttable(q, busy)  BY <2>1 DEF CanCutOut
    <3> QED  BY <2>1, <3>1, CutExact
  <2>2. CASE ~IntersectsWith(q, busy)
    <3>1. q.from \in Int /\ q.to \in Int /\ busy.from \in Int /\ busy.to \in Int
      BY DEF NonEmpty, Period
    <3>2. \A t \in Int : In(t, q) => ~In(t, busy)  BY <2>2, <3>1 DEF IntersectsWith, In
    <3>3. left(q) = {q}  BY <2>2
    <3> QED  BY <3>1, <3>2, <3>3 DEF InSome
  <2> QED  BY <2>1, <2>2
<1>2. CutOut(free, busy) = UNION {left(q) : q \in free}  BY DEF CutOut
<1> HIDE DEF left
<1>3. \A p \in CutOut(free, busy) : \E q \in free : p \in left(q)  BY <1>2
<1>4. \A q \in free : left(q) \subseteq CutOut(free, busy)  BY <1>2
<1>5. ASSUME NEW t \in Int
      PROVE  InSome(t, CutOut(free, busy)) <=> InSome(t, free) /\ ~In(t, busy)
  <2>1. ASSUME InSome(t, CutOut(free, busy))  PROVE InSome(t, free) /\ ~In(t, busy)
    <3>1. PICK p \in CutOut(free, busy) : In(t, p)  BY <2>1 DEF InSome
    <3>2. PICK q \in free : p \in left(q)  BY <1>3, <3>1
    <3>3. InSome(t, left(q))  BY <3>1, <3>2 DEF InSome
    <3> QED  BY <1>1, <3>2, <3>3 DEF InSome
  <2>2. ASSUME InSome(t, free), ~In(t, busy)  PROVE InSome(t, CutOut(free, busy))
    <3>1. PICK q \in free : In(t, q)  BY <2>2 DEF InSome
    <3>2. InSome(t, left(q))  BY <1>1, <2>2, <3>1
    <3> QED  BY <1>4, <3>2 DEF InSome
  <2> QED  BY <2>1, <2>2
<1> QED  BY <1>1, <1>3, <1>5

-----------------------------------------------------------------------------
(* ComputeFreeTimePeriods *)

\* The free periods that are left after each round.
Free(busy, w) ==
  LET free[k \in 0 .. Len(busy)] == IF k = 0 THEN {w} ELSE CutOut(free[k - 1], busy[k])
  IN  free

\* A function on 1 .. n is a list of length n.
LEMMA ListLength ==
  ASSUME NEW n \in Nat, NEW S, NEW s \in [1 .. n -> S]
  PROVE  Len(s) = n /\ DOMAIN s = 1 .. n
<1>1. s \in Seq(S)  BY SeqDef
<1>2. Len(s) \in Nat /\ DOMAIN s = 1 .. Len(s)  BY <1>1, LenProperties
<1> QED  BY <1>2

LEMMA CutOutType ==
  ASSUME NEW free \in SUBSET Period, NEW busy \in Period
  PROVE  CutOut(free, busy) \in SUBSET Period
<1>1. ASSUME NEW p \in free  PROVE Cut(p, busy) \subseteq Period
  BY DEF Cut, Period
<1> QED  BY <1>1 DEF CutOut

\* Every round cuts one busy period out of what the rounds before left.
LEMMA FreeRounds ==
  ASSUME NEW n \in Nat, NEW busy \in [1 .. n -> NonEmpty], NEW w \in Period
  PROVE  /\ Free(busy, w)[0] = {w}
         /\ \A k \in 1 .. n : Free(busy, w)[k] = CutOut(Free(busy, w)[k - 1], busy[k])
         /\ ComputeFreeTimePeriods(busy, w).free = Free(busy, w)[n]
         /\ ComputeFreeTimePeriods(busy, w).ok =
              \A k \in 1 .. n : CanCutOut(Free(busy, w)[k - 1], busy[k])
<1>1. Len(busy) = n  BY ListLength
<1> DEFINE D == SUBSET Period
           base == {w}
           step == [x \in D \X (1 .. n) |-> CutOut(x[1], busy[x[2]])]
<1>2. base \in D /\ step \in Steps(D, n)
  <2>1. \A k \in 1 .. n : busy[k] \in Period  BY DEF NonEmpty
  <2> QED  BY <2>1, CutOutType DEF Steps
<1>3. PICK f : f \in Runs(D, n, base, step)
  <2> HIDE DEF D, base, step
  <2> QED  BY <1>2, Recursion
<1>4. f = [k \in 0 .. n |-> IF k = 0 THEN {w} ELSE CutOut(f[k - 1], busy[k])]
  <2>1. f \in [0 .. n -> D] /\ f[0] = {w} /\ \A k \in 1 .. n : f[k] = step[<<f[k - 1], k>>]
    BY <1>3 DEF Runs
  <2>2. ASSUME NEW k \in 1 .. n  PROVE f[k] = CutOut(f[k - 1], busy[k])
    <3>1. k - 1 \in 0 .. n /\ f[k - 1] \in D  BY <2>1
    <3> QED  BY <2>1, <3>1
  <2> QED  BY <2>1, <2>2
<1> DEFINE F == Free(busy, w)
<1>5. F = [k \in 0 .. n |-> IF k = 0 THEN {w} ELSE CutOut(F[k - 1], busy[k])]
  BY <1>1, <1>4 DEF Free
<1>6. ComputeFreeTimePeriods(busy, w) =
        [ok |-> \A k \in 1 .. n : CanCutOut(F[k - 1], busy[k]), free |-> F[n]]
  BY <1>1 DEF ComputeFreeTimePeriods, Free
<1> HIDE DEF D, base, step, F
<1>7. F[0] = {w} /\ \A k \in 1 .. n : F[k] = CutOut(F[k - 1], busy[k])
  <2>1. 0 \in 0 .. n /\ \A k \in 1 .. n : k \in 0 .. n /\ k # 0  OBVIOUS
  <2> QED  BY <1>5, <2>1
<1> QED  BY <1>6, <1>7 DEF F

\* A window that is empty: what reaches into it covers it all.
LEMMA EmptyWindowCut ==
  ASSUME NEW w \in Period, w.to <= w.from, NEW free \in SUBSET {w}, NEW busy \in NonEmpty
  PROVE  CutOut(free, busy) \subseteq {w}
<1>1. IntersectsWith(w, busy) => CutCompletely(w, busy)
  BY DEF Period, NonEmpty, IntersectsWith, CutCompletely
<1>2. IntersectsWith(w, busy) => Cut(w, busy) = {}  BY <1>1 DEF Cut
<1> QED  BY <1>2 DEF CutOut

\* ComputeFreeTimePeriods, for busy periods in any order and number: if it does
\* not fail, the instants of the free periods it returns are those of the
\* window outside every busy period.  No free period is empty or leaves the
\* window, save a window that is empty itself.
THEOREM ComputedFreeTimesExact ==
  ASSUME NEW n \in Nat, NEW busy \in [1 .. n -> NonEmpty], NEW w \in Period,
         ComputeFreeTimePeriods(busy, w).ok
  PROVE  LET free == ComputeFreeTimePeriods(busy, w).free IN
         /\ \A p \in free : p = w \/ (w.from <= p.from /\ p.from < p.to /\ p.to <= w.to)
         /\ \A t \in Int : InSome(t, free) <=> In(t, w) /\ ~\E k \in 1 .. n : In(t, busy[k])
<1> DEFINE F == Free(busy, w)
           Within(free) == \A p \in free : w.from <= p.from /\ p.to <= w.to
           Outside(t, m) == In(t, w) /\ ~\E k \in 1 .. m : In(t, busy[k])
<1>1. /\ F[0] = {w}
      /\ \A k \in 1 .. n : F[k] = CutOut(F[k - 1], busy[k])
      /\ ComputeFreeTimePeriods(busy, w).free = F[n]
      /\ \A k \in 1 .. n : CanCutOut(F[k - 1], busy[k])
  BY FreeRounds
<1>2. w.from \in Int /\ w.to \in Int  BY DEF Period
<1> HIDE DEF F
<1>3. CASE w.from < w.to
  <2> DEFINE S == {m \in 0 .. n : /\ F[m] \subseteq NonEmpty /\ Within(F[m])
                                  /\ \A t \in Int : InSome(t, F[m]) <=> Outside(t, m)}
  <2>1. 0 \in S
    <3>1. F[0] \subseteq NonEmpty /\ Within(F[0])  BY <1>1, <1>2, <1>3 DEF NonEmpty
    <3>2. \A t \in Int : InSome(t, F[0]) <=> Outside(t, 0)  BY <1>1 DEF InSome
    <3> QED  BY <3>1, <3>2
  <2>2. ASSUME NEW m \in 1 .. n, m - 1 \in S  PROVE m \in S
    <3>1. F[m - 1] \in SUBSET NonEmpty /\ Within(F[m - 1]) /\ busy[m] \in NonEmpty
          /\ CanCutOut(F[m - 1], busy[m]) /\ F[m] = CutOut(F[m - 1], busy[m])
      BY <1>1, <2>2
    <3>2. /\ F[m] \subseteq NonEmpty
          /\ \A p \in F[m] : \E q \in F[m - 1] : q.from <= p.from /\ p.to <= q.to
          /\ \A t \in Int : InSome(t, F[m]) <=> InSome(t, F[m - 1]) /\ ~In(t, busy[m])
      <4> DEFINE prev == F[m - 1]
                 b == busy[m]
      <4>1. prev \in SUBSET NonEmpty /\ b \in NonEmpty /\ CanCutOut(prev, b)  BY <3>1
      <4> HIDE DEF prev, b
      <4>2. /\ CutOut(prev, b) \subseteq NonEmpty
            /\ \A p \in CutOut(prev, b) : \E q \in prev : q.from <= p.from /\ p.to <= q.to
            /\ \A t \in Int : InSome(t, CutOut(prev, b)) <=> InSome(t, prev) /\ ~In(t, b)
        BY <4>1, CutOutExact, Zenon
      <4> QED  BY <3>1, <4>2 DEF prev, b
    <3>3. Within(F[m])
      <4> SUFFICES ASSUME NEW p \in F[m] PROVE w.from <= p.from /\ p.to <= w.to  OBVIOUS
      <4>1. PICK q \in F[m - 1] : q.from <= p.from /\ p.to <= q.to  BY <3>2
      <4>2. p \in Period /\ q \in Period  BY <3>1, <3>2 DEF NonEmpty
      <4> QED  BY <1>2, <3>1, <4>1, <4>2 DEF Period
    <3>4. ASSUME NEW t \in Int  PROVE InSome(t, F[m]) <=> Outside(t, m)
      <4>1. InSome(t, F[m - 1]) <=> Outside(t, m - 1)  BY <2>2
      <4>2. 1 .. m = (1 .. (m - 1)) \cup {m}  OBVIOUS
      <4>3. Outside(t, m) <=> Outside(t, m - 1) /\ ~In(t, busy[m])  BY <4>2
      <4> HIDE DEF Outside
      <4> QED  BY <3>2, <4>1, <4>3
    <3> HIDE DEF Within, Outside
    <3> QED  BY <3>2, <3>3, <3>4
  <2> HIDE DEF S
  <2>3. n \in S  BY <2>1, <2>2, Induction
  <2>4. /\ F[n] \subseteq NonEmpty /\ Within(F[n])
        /\ \A t \in Int : InSome(t, F[n]) <=> Outside(t, n)
    BY <2>3 DEF S
  <2> QED  BY <1>1, <2>4 DEF NonEmpty
<1>4. CASE ~(w.from < w.to)
  <2> DEFINE S == {m \in 0 .. n : F[m] \subseteq {w}}
  <2>1. 0 \in S  BY <1>1
  <2>2. ASSUME NEW m \in 1 .. n, m - 1 \in S  PROVE m \in S
    <3>1. F[m - 1] \in SUBSET {w} /\ busy[m] \in NonEmpty /\ F[m] = CutOut(F[m - 1], busy[m])
      BY <1>1, <2>2
    <3>2. w.to <= w.from  BY <1>2, <1>4
    <3>3. F[m] \subseteq {w}  BY <3>1, <3>2, EmptyWindowCut
    <3> QED  BY <3>3
  <2> HIDE DEF S
  <2>3. n \in S  BY <2>1, <2>2, Induction
  <2>4. F[n] \subseteq {w}  BY <2>3 DEF S
  <2>5. \A t \in Int : ~In(t, w)  BY <1>2, <1>4 DEF In
  <2> QED  BY <1>1, <2>4, <2>5 DEF InSome
<1> QED  BY <1>3, <1>4

-----------------------------------------------------------------------------
(* ComputeNumberOfUsedParkingPlaces *)

\* An order of a finite set lists each of its elements once.
LEMMA OrderOfSet ==
  ASSUME NEW T, IsFiniteSet(T), NEW s \in SetToSeqs(T)
  PROVE  /\ Cardinality(T) \in Nat /\ s \in [1 .. Cardinality(T) -> T]
         /\ Len(s) = Cardinality(T) /\ DOMAIN s = 1 .. Cardinality(T)
         /\ \A i, j \in 1 .. Cardinality(T) : i # j => s[i] # s[j]
         /\ \A x \in T : \E i \in 1 .. Cardinality(T) : s[i] = x
<1> DEFINE n == Cardinality(T)
<1>1. n \in Nat  BY FS_CardinalityType
<1>2. s \in [1 .. n -> T] /\ \A i, j \in 1 .. n : i # j => s[i] # s[j]
  BY DEF SetToSeqs
<1> HIDE DEF n
<1>3. s \in Injection(1 .. n, T)  BY <1>2 DEF Injection, IsInjective
<1>4. Cardinality(1 .. n) = n /\ IsFiniteSet(1 .. n)  BY <1>1, FS_Interval
<1>5. s \in Surjection(1 .. n, T)  BY <1>3, <1>4, FS_Injection DEF n
<1>6. \A x \in T : \E i \in 1 .. n : s[i] = x  BY <1>5 DEF Surjection
<1>7. Len(s) = n /\ DOMAIN s = 1 .. n  BY <1>1, <1>2, ListLength
<1> QED  BY <1>1, <1>2, <1>6, <1>7 DEF n

\* The largest of the values f[0], ..., f[n].
LEMMA MaxOfRange ==
  ASSUME NEW n \in Nat, NEW f \in [0 .. n -> Int]
  PROVE  \E j \in 0 .. n : Max(Range(f)) = f[j] /\ \A i \in 0 .. n : f[i] <= f[j]
<1> DEFINE S == {m \in 0 .. n : \E j \in 0 .. m : \A i \in 0 .. m : f[i] <= f[j]}
<1>1. 0 \in S  OBVIOUS
<1>2. ASSUME NEW m \in 1 .. n, m - 1 \in S  PROVE m \in S
  <2>1. PICK j \in 0 .. (m - 1) : \A i \in 0 .. (m - 1) : f[i] <= f[j]  BY <1>2
  <2>2. f[j] \in Int /\ f[m] \in Int /\ j \in 0 .. m  OBVIOUS
  <2>3. \A i \in 0 .. m : i \in 0 .. (m - 1) \/ i = m  OBVIOUS
  <2>4. CASE f[m] <= f[j]
    <3>1. \A i \in 0 .. m : f[i] <= f[j]  BY <2>1, <2>3, <2>4
    <3> QED  BY <2>2, <3>1
  <2>5. CASE f[j] <= f[m]
    <3>1. \A i \in 0 .. (m - 1) : f[i] <= f[m]  BY <2>1, <2>2, <2>5
    <3>2. \A i \in 0 .. m : f[i] <= f[m]  BY <2>2, <2>3, <3>1
    <3> QED  BY <3>2
  <2> QED  BY <2>2, <2>4, <2>5
<1> HIDE DEF S
<1>3. n \in S
  <2>1. 0 .. n \subseteq S  BY <1>1, <1>2, Induction
  <2> QED  BY <2>1
<1>4. PICK j \in 0 .. n : \A i \in 0 .. n : f[i] <= f[j]  BY <1>3 DEF S
<1>5. Range(f) = {f[i] : i \in 0 .. n}  BY DEF Range
<1>6. f[j] \in Range(f) /\ \A y \in Range(f) : y <= f[j]  BY <1>4, <1>5
<1>7. Max(Range(f)) = f[j]
  <2>1. \A x \in Range(f) : (\A y \in Range(f) : x >= y) => x = f[j]
    <3>1. \A x \in Range(f) : x \in Int  BY <1>5
    <3> QED  BY <1>6, <3>1
  <2>2. \A y \in Range(f) : f[j] >= y  BY <1>5, <1>6
  <2> QED  BY <1>6, <2>1, <2>2 DEF Max
<1> QED  BY <1>4, <1>7

\* The number of used places after each change of a list.
Used(s) ==
  LET used[j \in 0 .. Len(s)] == IF j = 0 THEN 0 ELSE used[j - 1] + s[j][2]
  IN  used

\* Lists of n changes that the periods of K bring.
ChangeLists(K, n) == [1 .. n -> K \X {1, -1}]

LEMMA UsedRuns ==
  ASSUME NEW n \in Nat, NEW K, NEW s \in ChangeLists(K, n)
  PROVE  /\ Used(s) \in [0 .. n -> Int] /\ Used(s)[0] = 0
         /\ \A j \in 1 .. n : Used(s)[j] = Used(s)[j - 1] + s[j][2]
         /\ MostUsed(s) = Max(Range(Used(s)))
<1> USE DEF ChangeLists
<1>1. Len(s) = n  BY ListLength
<1> DEFINE step == [x \in Int \X (1 .. n) |-> x[1] + s[x[2]][2]]
<1>2. step \in Steps(Int, n)
  <2>1. \A j \in 1 .. n : s[j][2] \in Int  OBVIOUS
  <2> QED  BY <2>1 DEF Steps
<1>3. PICK f : f \in Runs(Int, n, 0, step)
  <2> HIDE DEF step
  <2>1. 0 \in Int  OBVIOUS
  <2> QED  BY <1>2, <2>1, Recursion
<1>4. /\ f \in [0 .. n -> Int] /\ f[0] = 0
      /\ \A j \in 1 .. n : f[j] = step[<<f[j - 1], j>>]
  BY <1>3 DEF Runs
<1>5. ASSUME NEW j \in 1 .. n  PROVE f[j] = f[j - 1] + s[j][2]
  <2>1. j - 1 \in 0 .. n /\ f[j - 1] \in Int  BY <1>4
  <2> QED  BY <1>4, <2>1
<1>6. f = [j \in 0 .. n |-> IF j = 0 THEN 0 ELSE f[j - 1] + s[j][2]]  BY <1>4, <1>5
<1> DEFINE U == Used(s)
<1>7. U = [j \in 0 .. n |-> IF j = 0 THEN 0 ELSE U[j - 1] + s[j][2]]  BY <1>1, <1>6 DEF Used
<1>8. MostUsed(s) = Max(Range(U))  BY DEF MostUsed, Used
<1> HIDE DEF step, U
<1>9. U[0] = 0 /\ \A j \in 1 .. n : U[j] = U[j - 1] + s[j][2]
  <2>1. 0 \in 0 .. n /\ \A j \in 1 .. n : j \in 0 .. n /\ j # 0  OBVIOUS
  <2> QED  BY <1>7, <2>1
<1>10. U \in [0 .. n -> Int]
  <2> DEFINE S == {j \in 0 .. n : U[j] \in Int}
  <2>1. 0 \in S  BY <1>9
  <2>2. ASSUME NEW j \in 1 .. n, j - 1 \in S  PROVE j \in S
    <3>1. s[j][2] \in Int  OBVIOUS
    <3> QED  BY <1>9, <2>2, <3>1
  <2>3. 0 .. n \subseteq S
    <3> HIDE DEF S
    <3> QED  BY <2>1, <2>2, Induction
  <2> QED  BY <1>7, <2>3
<1> QED  BY <1>8, <1>9, <1>10 DEF U

\* The periods k of K whose change d is among the first j changes.
Seen(K, s, j, d) == {k \in K : \E i \in 1 .. j : s[i] = <<k, d>>}

\* The number of used places is that of the periods begun less that of those ended.
LEMMA UsedCounts ==
  ASSUME NEW n \in Nat, NEW K, IsFiniteSet(K), NEW s \in ChangeLists(K, n),
         \A i, j \in 1 .. n : i # j => s[i] # s[j]
  PROVE  \A j \in 0 .. n :
           Used(s)[j] = Cardinality(Seen(K, s, j, 1)) - Cardinality(Seen(K, s, j, -1))
<1> DEFINE U == Used(s)
           Begun(j) == Seen(K, s, j, 1)
           Ended(j) == Seen(K, s, j, -1)
           S == {j \in 0 .. n : U[j] = Cardinality(Begun(j)) - Cardinality(Ended(j))}
<1>1. U[0] = 0 /\ U \in [0 .. n -> Int] /\ \A j \in 1 .. n : U[j] = U[j - 1] + s[j][2]
  BY UsedRuns
<1>2. \A j \in 0 .. n : IsFiniteSet(Begun(j)) /\ IsFiniteSet(Ended(j))
  BY FS_Subset DEF Seen
<1>3. \A j \in 0 .. n : Cardinality(Begun(j)) \in Nat /\ Cardinality(Ended(j)) \in Nat
  BY <1>2, FS_CardinalityType
<1> HIDE DEF U
<1>4. 0 \in S
  <2>1. Begun(0) = {} /\ Ended(0) = {}  BY DEF Seen
  <2>2. Cardinality(Begun(0)) = 0 /\ Cardinality(Ended(0)) = 0  BY <2>1, FS_EmptySet
  <2> QED  BY <1>1, <2>2
<1>5. ASSUME NEW j \in 1 .. n, j - 1 \in S  PROVE j \in S
  <2>1. j - 1 \in 0 .. n /\ j \in 0 .. n /\ s[j] \in K \X {1, -1}  BY DEF ChangeLists
  <2>2. PICK k \in K, d \in {1, -1} : s[j] = <<k, d>>  BY <2>1
  <2>3. \A e \in {1, -1} : \A q \in K :
          q \in Seen(K, s, j, e) <=> q \in Seen(K, s, j - 1, e) \/ <<k, d>> = <<q, e>>
    <3>1. 1 .. j = (1 .. (j - 1)) \cup {j}  OBVIOUS
    <3> QED  BY <2>2, <3>1 DEF Seen
  <2>4. k \notin Seen(K, s, j - 1, d)
    <3>1. \A i \in 1 .. (j - 1) : i \in 1 .. n /\ i # j  OBVIOUS
    <3>2. \A i \in 1 .. (j - 1) : s[i] # s[j]  BY <3>1
    <3> QED  BY <2>2, <3>2 DEF Seen
  <2>5. Seen(K, s, j, d) = Seen(K, s, j - 1, d) \cup {k}  BY <2>3 DEF Seen
  <2>6. \A e \in {1, -1} : e # d => Seen(K, s, j, e) = Seen(K, s, j - 1, e)  BY <2>3 DEF Seen
  <2>7. Cardinality(Seen(K, s, j, d)) = Cardinality(Seen(K, s, j - 1, d)) + 1
    BY <1>2, <2>1, <2>2, <2>4, <2>5, FS_AddElement
  <2>8. U[j] = U[j - 1] + d  BY <1>1, <2>2
  <2>9. U[j - 1] = Cardinality(Begun(j - 1)) - Cardinality(Ended(j - 1))  BY <1>5
  <2>10. U[j] = Cardinality(Begun(j)) - Cardinality(Ended(j))
    <3>1. /\ Cardinality(Begun(j - 1)) \in Nat /\ Cardinality(Ended(j - 1)) \in Nat
          /\ Cardinality(Begun(j)) \in Nat /\ Cardinality(Ended(j)) \in Nat
      BY <1>3, <2>1
    <3>2. CASE d = 1
      <4>1. Ended(j) = Ended(j - 1)  BY <2>6, <3>2
      <4> QED  BY <2>7, <2>8, <2>9, <3>1, <3>2, <4>1
    <3>3. CASE d = -1
      <4>1. Begun(j) = Begun(j - 1)  BY <2>6, <3>3
      <4> QED  BY <2>7, <2>8, <2>9, <3>1, <3>3, <4>1
    <3> QED  BY <3>2, <3>3
  <2> QED  BY <2>10
<1>6. 0 .. n \subseteq S
  <2> HIDE DEF S
  <2> QED  BY <1>4, <1>5, Induction
<1> QED  BY <1>6 DEF U

\* In a sorted list, those up to t come first.
LEMMA SortedPrefix ==
  ASSUME NEW n \in Nat, NEW f \in [1 .. n -> Int], NEW t \in Int,
         \A i, j \in 1 .. n : i < j => f[i] <= f[j]
  PROVE  \E j \in 0 .. n : \A h \in 1 .. n : h <= j <=> f[h] <= t
<1> DEFINE Splits(j, m) == \A h \in 1 .. m : h <= j <=> f[h] <= t
           S == {m \in 0 .. n : \E j \in 0 .. m : Splits(j, m)}
<1>1. 0 \in S  OBVIOUS
<1>2. ASSUME NEW m \in 1 .. n, m - 1 \in S  PROVE m \in S
  <2>1. PICK j \in 0 .. (m - 1) : \A h \in 1 .. (m - 1) : h <= j <=> f[h] <= t  BY <1>2
  <2>2. CASE f[m] <= t
    <3>1. \A h \in 1 .. m : f[h] <= t
      <4> SUFFICES ASSUME NEW h \in 1 .. m PROVE f[h] <= t  OBVIOUS
      <4>1. h \in 1 .. n /\ f[h] \in Int /\ f[m] \in Int  OBVIOUS
      <4>2. h = m \/ f[h] <= f[m]  BY <4>1
      <4> QED  BY <2>2, <4>1, <4>2
    <3>2. m \in 0 .. m /\ Splits(m, m)  BY <3>1
    <3> HIDE DEF Splits
    <3> QED  BY <3>2
  <2>3. CASE ~(f[m] <= t)
    <3>1. Splits(j, m)
      <4> SUFFICES ASSUME NEW h \in 1 .. m PROVE h <= j <=> f[h] <= t  OBVIOUS
      <4>1. h \in 1 .. (m - 1) \/ h = m  OBVIOUS
      <4> QED  BY <2>1, <2>3, <4>1
    <3>2. j \in 0 .. m  OBVIOUS
    <3> HIDE DEF Splits
    <3> QED  BY <3>1, <3>2
  <2> QED  BY <2>2, <2>3
<1>3. n \in S
  <2> HIDE DEF S
  <2>1. 0 .. n \subseteq S  BY <1>1, <1>2, Induction
  <2> QED  BY <2>1
<1> QED  BY <1>3

\* The periods that reach into w.
Reaching(busy, n, w) == {k \in 1 .. n : IntersectsWith(w, busy[k])}

\* Those of them that hold an instant, their ends included.
HoldingIn(busy, n, w, t) ==
  {k \in Reaching(busy, n, w) : busy[k].from <= t /\ t <= busy[k].to}

\* A list of changes is sorted by their times.
SortedBy(busy, s, n) ==
  \A i, j \in 1 .. n : i < j => TimeOf(busy, s[i]) <= TimeOf(busy, s[j])

\* A list of all changes of the periods K, sorted by time, runs through "used"
\* places, and through no more.
ReachedAtMost(busy, K, used) ==
  \E N \in Nat : \E s \in ChangeLists(K, N) : \E j \in 0 .. N :
    /\ \A h, i \in 1 .. N : h # i => s[h] # s[i]
    /\ \A c \in K \X {1, -1} : \E i \in 1 .. N : s[i] = c
    /\ SortedBy(busy, s, N)
    /\ used = Used(s)[j] /\ Used(s) \in [0 .. N -> Int]
    /\ \A i \in 0 .. N : Used(s)[i] <= used

\* What is returned is run through by a list of the changes of all periods
\* that reach into w.
LEMMA SortedChangesList ==
  ASSUME NEW n \in Nat, NEW busy \in [1 .. n -> NonEmpty], NEW w \in Period,
         NEW used \in ComputeNumberOfUsedParkingPlaces(busy, w)
  PROVE  /\ IsFiniteSet(Reaching(busy, n, w))
         /\ ReachedAtMost(busy, Reaching(busy, n, w), used)
<1> DEFINE K == Reaching(busy, n, w)
           T == K \X {1, -1}
<1>1. DOMAIN busy = 1 .. n  OBVIOUS
<1>2. IsFiniteSet(K)
  <2>1. IsFiniteSet(1 .. n)  BY FS_Interval
  <2> QED  BY <2>1, FS_Subset DEF Reaching
<1>3. IsFiniteSet(T)
  <2>1. IsFiniteSet({1} \cup {-1})  BY FS_Singleton, FS_Union
  <2>2. {1} \cup {-1} = {1, -1}  OBVIOUS
  <2> QED  BY <1>2, <2>1, <2>2, FS_Product
<1>4. PICK s \in SetToSeqs(T) :
        /\ \A i, j \in DOMAIN s : i < j => TimeOf(busy, s[i]) <= TimeOf(busy, s[j])
        /\ used = MostUsed(s)
  BY <1>1 DEF ComputeNumberOfUsedParkingPlaces, SortedChanges, Changes, Reaching
<1> DEFINE N == Cardinality(T)
<1> HIDE DEF T
<1>5. /\ N \in Nat /\ s \in [1 .. N -> T] /\ DOMAIN s = 1 .. N
      /\ \A h, i \in 1 .. N : h # i => s[h] # s[i]
      /\ \A c \in T : \E i \in 1 .. N : s[i] = c
  BY <1>3, OrderOfSet
<1>6. s \in ChangeLists(K, N)  BY <1>5 DEF ChangeLists, T
<1>7. SortedBy(busy, s, N)  BY <1>4, <1>5 DEF SortedBy
<1> HIDE DEF N, K
<1> DEFINE U == Used(s)
<1>8. N \in Nat /\ U \in [0 .. N -> Int] /\ used = Max(Range(U))
  BY <1>4, <1>5, <1>6, UsedRuns
<1> HIDE DEF U
<1>9. PICK j \in 0 .. N : used = U[j] /\ \A i \in 0 .. N : U[i] <= used
  BY <1>8, MaxOfRange
<1>10. ReachedAtMost(busy, K, used)
  BY <1>5, <1>6, <1>7, <1>8, <1>9 DEF ReachedAtMost, T, U
<1> QED  BY <1>2, <1>10 DEF K

\* A change of K among all changes of a complete list.
LEMMA SeenAll ==
  ASSUME NEW N \in Nat, NEW K, NEW s \in ChangeLists(K, N),
         \A c \in K \X {1, -1} : \E i \in 1 .. N : s[i] = c,
         NEW k \in K, NEW d \in {1, -1}
  PROVE  \E i \in 1 .. N : s[i] = <<k, d>>
<1>1. <<k, d>> \in K \X {1, -1}  OBVIOUS
<1> QED  BY <1>1

\* The number returned is no less than the number of busy periods in which any
\* one instant of the window lies.
LEMMA UsedAtLeast ==
  ASSUME NEW n \in Nat, NEW busy \in [1 .. n -> NonEmpty], NEW w \in Period,
         NEW used \in ComputeNumberOfUsedParkingPlaces(busy, w),
         NEW t \in Int, In(t, w)
  PROVE  Cardinality({k \in 1 .. n : In(t, busy[k])}) <= used
<1> DEFINE K == Reaching(busy, n, w)
<1>1. IsFiniteSet(K)  BY SortedChangesList
<1>2. PICK N \in Nat : \E s \in ChangeLists(K, N) :
        /\ \A h, i \in 1 .. N : h # i => s[h] # s[i]
        /\ \A c \in K \X {1, -1} : \E i \in 1 .. N : s[i] = c
        /\ SortedBy(busy, s, N)
        /\ \A i \in 0 .. N : Used(s)[i] <= used
  <2>1. ReachedAtMost(busy, K, used)  BY SortedChangesList
  <2> HIDE DEF K
  <2> QED  BY <2>1 DEF ReachedAtMost
<1>3. PICK s \in ChangeLists(K, N) :
        /\ \A h, i \in 1 .. N : h # i => s[h] # s[i]
        /\ \A c \in K \X {1, -1} : \E i \in 1 .. N : s[i] = c
        /\ SortedBy(busy, s, N)
        /\ \A i \in 0 .. N : Used(s)[i] <= used
  BY <1>2
<1>4. \A k \in K : k \in 1 .. n /\ IntersectsWith(w, busy[k])  BY DEF Reaching
<1>5. \A k \in 1 .. n : busy[k].from \in Int /\ busy[k].to \in Int /\ busy[k].from < busy[k].to
  BY DEF NonEmpty, Period
<1>6. w.from \in Int /\ w.to \in Int  BY DEF Period
<1>7. \A k \in 1 .. n : In(t, busy[k]) => k \in K
  BY <1>5, <1>6 DEF Reaching, In, IntersectsWith
<1> HIDE DEF K
<1> DEFINE f == [i \in 1 .. N |-> TimeOf(busy, s[i])]
<1>8. f \in [1 .. N -> Int]
  <2> SUFFICES ASSUME NEW i \in 1 .. N PROVE TimeOf(busy, s[i]) \in Int  OBVIOUS
  <2>1. s[i][1] \in K  BY DEF ChangeLists
  <2> QED  BY <1>4, <1>5, <2>1 DEF TimeOf
<1>9. \A i, j \in 1 .. N : i < j => f[i] <= f[j]  BY <1>3 DEF SortedBy
<1>10. PICK j \in 0 .. N : \A h \in 1 .. N : h <= j <=> f[h] <= t
  <2> HIDE DEF f
  <2> QED  BY <1>8, <1>9, SortedPrefix
<1> DEFINE Begun == {k \in K : busy[k].from <= t}
           Ended == {k \in K : busy[k].to <= t}
<1>11. ASSUME NEW k \in K, NEW d \in {1, -1}
       PROVE  (\E i \in 1 .. j : s[i] = <<k, d>>) <=> TimeOf(busy, <<k, d>>) <= t
  <2>1. PICK h \in 1 .. N : s[h] = <<k, d>>  BY <1>3, SeenAll
  <2>2. f[h] = TimeOf(busy, <<k, d>>)  BY <2>1
  <2>3. ASSUME NEW i \in 1 .. j, s[i] = <<k, d>>  PROVE i = h
    <3>1. i \in 1 .. N  OBVIOUS
    <3> QED  BY <1>3, <2>1, <2>3, <3>1
  <2>4. h <= j <=> f[h] <= t  BY <1>10
  <2>5. h <= j <=> h \in 1 .. j  OBVIOUS
  <2> HIDE DEF f
  <2> QED  BY <2>1, <2>2, <2>3, <2>4, <2>5
<1>12. Seen(K, s, j, 1) = Begun /\ Seen(K, s, j, -1) = Ended
  <2>1. \A k \in K : TimeOf(busy, <<k, 1>>) = busy[k].from /\ TimeOf(busy, <<k, -1>>) = busy[k].to
    BY DEF TimeOf
  <2>2. 1 \in {1, -1} /\ -1 \in {1, -1}  OBVIOUS
  <2> QED  BY <1>11, <2>1, <2>2 DEF Seen
<1>13. Used(s)[j] = Cardinality(Begun) - Cardinality(Ended)
  <2> HIDE DEF Begun, Ended
  <2> QED  BY <1>1, <1>3, <1>12, UsedCounts
<1>14. Begun \ Ended = {k \in 1 .. n : In(t, busy[k])} /\ Begun \cap Ended = Ended
  <2>1. \A k \in K : busy[k].from \in Int /\ busy[k].to \in Int /\ busy[k].from < busy[k].to
    BY <1>4, <1>5
  <2>2. Begun \cap Ended = Ended  BY <2>1
  <2>3. \A k \in 1 .. n : k \in Begun \ Ended <=> In(t, busy[k])  BY <1>5, <1>7 DEF In
  <2>4. Begun \ Ended \subseteq 1 .. n  BY <1>4
  <2> QED  BY <2>2, <2>3, <2>4
<1>15. IsFiniteSet(Begun)  BY <1>1, FS_Subset
<1> HIDE DEF Begun, Ended
<1>16. Cardinality(Begun \ Ended) = Cardinality(Begun) - Cardinality(Ended)
  BY <1>14, <1>15, FS_Difference
<1>17. Used(s)[j] = Cardinality({k \in 1 .. n : In(t, busy[k])})  BY <1>13, <1>14, <1>16
<1>18. Used(s)[j] <= used  BY <1>3
<1> QED  BY <1>17, <1>18

\* The number returned is no more than the number of the busy periods, of
\* those reaching into the window, that hold one instant of it, ends included.
LEMMA UsedAtMost ==
  ASSUME NEW n \in Nat, NEW busy \in [1 .. n -> NonEmpty], NEW w \in NonEmpty,
         NEW used \in ComputeNumberOfUsedParkingPlaces(busy, w)
  PROVE  \E t \in w.from .. w.to : used <= Cardinality(HoldingIn(busy, n, w, t))
<1> DEFINE K == Reaching(busy, n, w)
<1>1. w \in Period /\ w.from \in Int /\ w.to \in Int /\ w.from < w.to  BY DEF NonEmpty, Period
<1>2. IsFiniteSet(K)  BY <1>1, SortedChangesList
<1>3. PICK N \in Nat : \E s \in ChangeLists(K, N) : \E j \in 0 .. N :
        /\ \A h, i \in 1 .. N : h # i => s[h] # s[i]
        /\ \A c \in K \X {1, -1} : \E i \in 1 .. N : s[i] = c
        /\ SortedBy(busy, s, N)
        /\ used = Used(s)[j]
  <2>1. ReachedAtMost(busy, K, used)  BY <1>1, SortedChangesList
  <2> HIDE DEF K
  <2> QED  BY <2>1 DEF ReachedAtMost
<1>4. PICK s \in ChangeLists(K, N), j \in 0 .. N :
        /\ \A h, i \in 1 .. N : h # i => s[h] # s[i]
        /\ \A c \in K \X {1, -1} : \E i \in 1 .. N : s[i] = c
        /\ SortedBy(busy, s, N)
        /\ used = Used(s)[j]
  BY <1>3
<1>5. \A k \in K : /\ busy[k].from \in Int /\ busy[k].to \in Int /\ busy[k].from < busy[k].to
                   /\ busy[k].from < w.to /\ w.from < busy[k].to
  BY <1>1 DEF Reaching, NonEmpty, Period, IntersectsWith
<1> HIDE DEF K
<1> DEFINE Begun == Seen(K, s, j, 1)
           Ended == Seen(K, s, j, -1)
<1>6. used = Cardinality(Begun) - Cardinality(Ended)  BY <1>2, <1>4, UsedCounts
<1>7. Begun \subseteq K /\ Ended \subseteq K  BY DEF Seen
<1>8. IsFiniteSet(Begun) /\ IsFiniteSet(Ended)  BY <1>2, <1>7, FS_Subset
<1>9. used <= Cardinality(Begun \ Ended) /\ IsFiniteSet(Begun \ Ended)
  <2>1. /\ Cardinality(Begun \ Ended) = Cardinality(Begun) - Cardinality(Begun \cap Ended)
        /\ IsFiniteSet(Begun \ Ended)
    BY <1>8, FS_Difference
  <2>2. Cardinality(Begun \cap Ended) <= Cardinality(Ended) /\ IsFiniteSet(Begun \cap Ended)
    BY <1>8, FS_Intersection
  <2>3. /\ Cardinality(Begun) \in Nat /\ Cardinality(Ended) \in Nat
        /\ Cardinality(Begun \cap Ended) \in Nat
    BY <1>8, <2>2, FS_CardinalityType
  <2> QED  BY <1>6, <2>1, <2>2, <2>3
<1> DEFINE last == TimeOf(busy, s[j])
           t == IF j = 0 \/ last < w.from THEN w.from ELSE IF last > w.to THEN w.to ELSE last
           Holding == {k \in K : busy[k].from <= t /\ t <= busy[k].to}
<1>10. j # 0 => last \in Int
  <2>1. ASSUME j # 0  PROVE s[j][1] \in K
    BY <2>1 DEF ChangeLists
  <2> QED  BY <1>5, <2>1 DEF TimeOf
<1>11. t \in w.from .. w.to  BY <1>1, <1>10
<1>12. ASSUME NEW k \in Begun \ Ended
       PROVE  k \in K /\ j # 0 /\ busy[k].from <= last /\ last <= busy[k].to
  <2>1. k \in K /\ ~\E i \in 1 .. j : s[i] = <<k, -1>>  BY DEF Seen
  <2>2. PICK b \in 1 .. j : s[b] = <<k, 1>>  BY DEF Seen
  <2>3. 1 \in {1, -1} /\ -1 \in {1, -1}  OBVIOUS
  <2>4. PICK e \in 1 .. N : s[e] = <<k, -1>>  BY <1>4, <2>1, <2>3, SeenAll
  <2>5. j # 0 /\ j \in 1 .. N /\ b \in 1 .. N /\ b <= j /\ j < e
    <3>1. e \notin 1 .. j  BY <2>1, <2>4
    <3> QED  BY <3>1
  <2>6. TimeOf(busy, s[b]) = busy[k].from /\ TimeOf(busy, s[e]) = busy[k].to
    BY <2>2, <2>4 DEF TimeOf
  <2>7. b = j \/ TimeOf(busy, s[b]) <= last  BY <1>4, <2>5 DEF SortedBy
  <2>8. last <= TimeOf(busy, s[e])  BY <1>4, <2>5 DEF SortedBy
  <2>9. busy[k].from \in Int  BY <1>5, <2>1
  <2> QED  BY <2>1, <2>5, <2>6, <2>7, <2>8, <2>9
<1>13. Begun \ Ended \subseteq Holding
  <2> SUFFICES ASSUME NEW k \in Begun \ Ended PROVE k \in Holding  OBVIOUS
  <2>1. k \in K /\ j # 0 /\ busy[k].from <= last /\ last <= busy[k].to  BY <1>12
  <2>2. last \in Int  BY <1>10, <2>1
  <2> HIDE DEF last, Begun, Ended
  <2> QED  BY <1>1, <1>5, <2>1, <2>2
<1>14. Holding \subseteq K  OBVIOUS
<1> HIDE DEF Holding, Begun, Ended
<1>15. IsFiniteSet(Holding)  BY <1>2, <1>14, FS_Subset
<1>16. Cardinality(Begun \ Ended) <= Cardinality(Holding)  BY <1>13, <1>15, FS_Subset
<1>17. Cardinality(Holding) \in Nat /\ Cardinality(Begun \ Ended) \in Nat
  BY <1>9, <1>15, FS_CardinalityType
<1>18. used <= Cardinality(Holding)
  <2>1. used \in Int
    <3>1. Cardinality(Begun) \in Nat /\ Cardinality(Ended) \in Nat  BY <1>8, FS_CardinalityType
    <3> QED  BY <1>6, <3>1
  <2> QED  BY <1>9, <1>16, <1>17, <2>1
<1>19. Holding = HoldingIn(busy, n, w, t)  BY DEF Holding, K, HoldingIn
<1> HIDE DEF t
<1> QED  BY <1>11, <1>18, <1>19

\* ComputeNumberOfUsedParkingPlaces, for busy periods in any order and number
\* and whatever order sort.Slice gives changes of one time: the number lies
\* between the largest number of periods that overlap in an instant of the
\* window and the largest number of those that only touch counted as well.
THEOREM ComputedUsedPlacesBounded ==
  ASSUME NEW n \in Nat, NEW busy \in [1 .. n -> NonEmpty], NEW w \in Period,
         NEW used \in ComputeNumberOfUsedParkingPlaces(busy, w)
  PROVE  /\ \A t \in w.from .. (w.to - 1) : Cardinality({k \in 1 .. n : In(t, busy[k])}) <= used
         /\ w.from < w.to => \E t \in w.from .. w.to : used <= Cardinality(HoldingIn(busy, n, w, t))
<1>1. w.from \in Int /\ w.to \in Int  BY DEF Period
<1>2. ASSUME NEW t \in w.from .. (w.to - 1)
      PROVE  Cardinality({k \in 1 .. n : In(t, busy[k])}) <= used
  <2>1. t \in Int /\ In(t, w)  BY <1>1 DEF In
  <2> QED  BY <2>1, UsedAtLeast
<1>3. ASSUME w.from < w.to
      PROVE  \E t \in w.from .. w.to : used <= Cardinality(HoldingIn(busy, n, w, t))
  <2>1. w \in NonEmpty  BY <1>3 DEF NonEmpty
  <2> QED  BY <2>1, UsedAtMost
<1> QED  BY <1>2, <1>3

=============================================================================
