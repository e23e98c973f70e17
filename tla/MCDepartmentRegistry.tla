------------------------ MODULE MCDepartmentRegistry ------------------------
(* DepartmentRegistry for TLC: requests are handled alike, whatever their name. *)
EXTENDS DepartmentRegistry, TLC

Symmetry == Permutations(Requests)
=============================================================================
