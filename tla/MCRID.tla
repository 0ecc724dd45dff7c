-------------------------------- MODULE MCRID --------------------------------
(***************************************************************************)
(* Instances of RID for TLC.                                               *)
(***************************************************************************)
EXTENDS RID

CONSTANTS c1, c2

Area4D(cells, start, end) == [cells |-> cells, start |-> start, end |-> end]

\* An ISA over either of two sibling cells, one of them yet to start.
ISAExtentsHalves == {Area4D({c1}, Nil, 1), Area4D({c2}, 1, 2)}

\* A subscription over either cell: its times left open, or yet to start.
SubExtentsHalves == {Area4D({c1}, Nil, Nil), Area4D({c2}, 1, 2)}

=============================================================================
