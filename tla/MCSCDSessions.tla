--------------------------- MODULE MCSCDSessions ---------------------------
(***************************************************************************)
(* Instances of SCDSessions for TLC.                                       *)
(***************************************************************************)
EXTENDS MCSCD, SCDSessions

SessionSymmetry == Symmetry \cup Permutations(Sessions)

=============================================================================
