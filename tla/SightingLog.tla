----------------------------- MODULE SightingLog -----------------------------
(***************************************************************************)
(* What the recognition log promises, without pods, transactions or an     *)
(* index: it only grows, it never holds two events of one employee in one  *)
(* window, and what a door is told rests on it.  A face is granted on its  *)
(* own event or on the one that made it a duplicate, and rejected only on  *)
(* its own; an error may leave an event behind or none.                    *)
(*                                                                         *)
(* Recognition implements this specification (its property Logs).          *)
(***************************************************************************)
CONSTANTS Sightings,   \* faces shown to a door, each once
          Keys,        \* an employee in a window
          None         \* the key of nobody

VARIABLES log,         \* the events: whose sighting, with which key
          told         \* told[s]: "none" until the door has its answer

vars == <<log, told>>

Init == log = {} /\ told = [s \in Sightings |-> "none"]

Logged(k) == \E event \in log : event.key = k

Verdict(k) == IF k = None THEN "rejected" ELSE "granted"

Tell(s, what) == /\ told[s] = "none"
                 /\ told' = [told EXCEPT ![s] = what]

\* A first sighting in its window, or one of nobody, which is never a duplicate.
Record(s, k) == /\ k = None \/ ~Logged(k)
                /\ log' = log \cup {[of |-> s, key |-> k]}
                /\ Tell(s, Verdict(k)) \/ Tell(s, "error")

Drop(s, k) == /\ k # None /\ Logged(k)
              /\ Tell(s, Verdict(k))
              /\ UNCHANGED log

GiveUp(s) == Tell(s, "error") /\ UNCHANGED log

Next == \E s \in Sightings :
            GiveUp(s) \/ \E k \in Keys \cup {None} : Record(s, k) \/ Drop(s, k)

Spec == Init /\ [][Next]_vars
=============================================================================
