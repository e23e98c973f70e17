--------------------------- MODULE OneTimeSession ---------------------------
(***************************************************************************)
(* What an enrollment session promises: it is issued once, then either     *)
(* completed or expired for good, and one completion at most is confirmed. *)
(* Each session of FaceEnrollment implements this as long as no two        *)
(* requests use it at the same time.                                       *)
(***************************************************************************)
CONSTANT Completions   \* attempts to use the session

VARIABLES status,     \* "absent", "pending", "completed" or "expired"
          confirmed   \* the completions that were answered 200

vars == <<status, confirmed>>

Init == status = "absent" /\ confirmed = {}

Move(from, to) == status = from /\ status' = to /\ UNCHANGED confirmed

Confirm == /\ status = "completed"
           /\ confirmed = {}
           /\ \E c \in Completions : confirmed' = {c}
           /\ UNCHANGED status

Next == \/ Move("absent", "pending")
        \/ Move("pending", "completed")
        \/ Move("pending", "expired")
        \/ Confirm

Spec == Init /\ [][Next]_vars
=============================================================================
