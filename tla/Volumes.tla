------------------------------- MODULE Volumes -------------------------------
(***************************************************************************)
(* The four-dimensional volumes of the DSS (pkg/models/geo.go) and the     *)
(* S2 cell unions their footprints are covered by.                         *)
(*                                                                         *)
(* A footprint is a set of level-13 cells.  Geometry (polygons, circles)   *)
(* is abstracted to the set of cells that geo.RegionCoverer returns for    *)
(* it.  Of the S2 hierarchy one group of four siblings and their level-12  *)
(* parent is kept, since normalising a cell union replaces the first by    *)
(* the second.  Absent altitudes and times are the value Nil.              *)
(***************************************************************************)
EXTENDS Integers

CONSTANTS
  Cells,         \* the level-13 cells
  SiblingCells,  \* cells with one common parent; {} when no union completes them
  ParentCell,    \* that parent, a cell of level 12
  Nil            \* an absent value: an SQL NULL, a Go nil, an empty string

ASSUME CellsAssumption ==
  /\ SiblingCells \subseteq Cells
  /\ ParentCell \notin Cells

ASSUME NilAssumption == Nil \notin Int

StoredCells == Cells \cup {ParentCell}
OptInt == Int \cup {Nil}

Volume == [cells : SUBSET Cells, lo : OptInt, hi : OptInt, start : Int, end : Int]

-----------------------------------------------------------------------------
(* Cell unions *)

\* s2.CellUnion.Normalize, as called by s2.CellUnionFromUnion: a complete
\* group of siblings becomes its parent, and a parent absorbs its children.
Normalize(cu) ==
  IF SiblingCells # {} /\ (SiblingCells \subseteq cu \/ ParentCell \in cu)
  THEN (cu \ SiblingCells) \cup {ParentCell}
  ELSE cu

CellUnionFromUnion(cu1, cu2) == Normalize(cu1 \cup cu2)

\* The level-13 cells that a stored union stands for.
Area(cu) == (cu \ {ParentCell}) \cup (IF ParentCell \in cu THEN SiblingCells ELSE {})

\* s2.CellUnion.Contains: every cell of the argument lies inside a cell of cu.
CellUnionContains(cu, cells) == cells \subseteq Area(cu)

\* The SQL condition "cells && $1" of every search query: the two arrays
\* share an id.  A parent and one of its children share none.
SharesCellId(cu1, cu2) == cu1 \cap cu2 # {}

-----------------------------------------------------------------------------
(* Volumes *)

\* COALESCE(a >= b, true)
AtLeast(a, b) == a = Nil \/ b = Nil \/ a >= b

TimesOverlap(start, end, v) == end >= v.start /\ v.end >= start

MinOf(a, b) == IF a <= b THEN a ELSE b
MaxOf(a, b) == IF a >= b THEN a ELSE b

\* In a union, a bound that one volume leaves open is the other's bound.
UnionLo(a, b) == IF a = Nil THEN b ELSE IF b = Nil THEN a ELSE MinOf(a, b)
UnionHi(a, b) == IF a = Nil THEN b ELSE IF b = Nil THEN a ELSE MaxOf(a, b)

UnionVolumes4D(v, w) ==
  [ cells |-> v.cells \cup w.cells,
    lo    |-> UnionLo(v.lo, w.lo),
    hi    |-> UnionHi(v.hi, w.hi),
    start |-> MinOf(v.start, w.start),
    end   |-> MaxOf(v.end, w.end) ]

=============================================================================
