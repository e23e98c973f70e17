-------------------------- MODULE MCFaceEnrollment --------------------------
(* Requests are interchangeable; employees too.                            *)
EXTENDS FaceEnrollment, TLC

Symmetry == Permutations(Requests) \cup Permutations(Employees)
=============================================================================
