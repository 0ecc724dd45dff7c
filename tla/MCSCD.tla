-------------------------------- MODULE MCSCD --------------------------------
(***************************************************************************)
(* Instances of SCD for TLC: footprints that are disjoint, touch or        *)
(* contain one another, and subscriptions that fit them or just miss them. *)
(***************************************************************************)
EXTENDS SCD, TLC

CONSTANTS c1, c2, c3, c4

\* Seconds lo to hi over the given cells, between altitudes 0 and 1.
Box(cells, start, end) ==
  [cells |-> cells, lo |-> 0, hi |-> 1, start |-> start, end |-> end]

\* An operational intent over one cell, and a shorter one over it and the next.
ExtentsTwo == {Box({c1}, 0, 2), Box({c1, c2}, 0, 1)}
\* One over a cell, and one over it and the next that begins when it ends.
ExtentsTouching == {Box({c1}, 0, 1), Box({c1, c2}, 1, 2)}
\* One that outlasts the clock.
ExtentsLong == {Box({c1}, 0, 3)}
\* Two halves of a group of siblings.
ExtentsHalves == {Box({c1, c2}, 0, 2), Box({c3, c4}, 0, 2)}

\* A subscription over both cells, its times left open.
SubExtentsOpen == {Box({c1, c2}, Nil, Nil)}
\* One that fits the first of two touching extents, its start left open, and
\* one over both cells that starts a second late.
SubExtentsLate == {Box({c1}, Nil, 1), Box({c1, c2}, 1, 3)}
\* One over both cells without altitudes.
SubExtentsFlat == {[Box({c1, c2}, Nil, Nil) EXCEPT !.lo = Nil, !.hi = Nil]}
\* One that starts a second late, one over a single cell, and one without a
\* footprint.
SubExtentsSkewed == {Box({c1, c2}, 1, 3), Box({c2}, 0, 2), Box({}, Nil, Nil)}

Symmetry ==
  Permutations(Managers) \cup Permutations(OpIds) \cup Permutations(SubIds)

=============================================================================
