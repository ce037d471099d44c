----------------------------- MODULE MCSessions -----------------------------
(***************************************************************************)
(* Model values and symmetry for the runs of Sessions: connections are     *)
(* interchangeable, and a row has two columns of one byte.                 *)
(***************************************************************************)
EXTENDS Sessions, TLC

CONSTANTS c1, c2, nopage

MCColumns == <<Column("INTEGER", 1), Column("VARCHAR", 1)>>
MCTwo == {c1, c2}
MCSymmetry == Permutations(MCTwo)

=============================================================================
