---------------------------- MODULE LoadShedding ----------------------------
(***************************************************************************)
(* What a circuit breaker promises its callers, without saying how: a call *)
(* is turned away only while the protected operation looks broken, which   *)
(* means that at least Threshold calls in a row, as the breaker heard of   *)
(* them, have failed; one reported success clears the suspicion.  And it   *)
(* turns calls away in spells: a spell is over with the next call that is  *)
(* let in, and after Patience ticks of it the next call has to be.         *)
(*                                                                         *)
(* CircuitBreaker implements this specification (its property Sheds).      *)
(***************************************************************************)
EXTENDS Naturals

CONSTANTS Callers,    \* the threads that use one breaker
          Threshold,  \* failures in a row that make the operation suspect
          Patience,   \* how long a spell may last
          Never       \* there is no spell

VARIABLES streak,     \* failures reported since the last success, up to Threshold
          phase,      \* phase[c]: "out", "busy" (running) or "shed" (turned away)
          spell       \* age of the spell, up to Patience, or Never

vars == <<streak, phase, spell>>

Init == /\ streak = 0
        /\ phase = [c \in Callers |-> "out"]
        /\ spell = Never

Enter(c) == /\ phase[c] # "busy"
            /\ phase' = [phase EXCEPT ![c] = "busy"]
            /\ spell' = Never
            /\ UNCHANGED streak

Shed(c) == /\ phase[c] # "busy"
           /\ streak >= Threshold
           /\ spell # Never /\ spell < Patience
           /\ phase' = [phase EXCEPT ![c] = "shed"]
           /\ UNCHANGED <<streak, spell>>

Succeed(c) == /\ phase[c] = "busy"
              /\ phase' = [phase EXCEPT ![c] = "out"]
              /\ streak' = 0
              /\ spell' = Never

Fail(c) == /\ phase[c] = "busy"
           /\ phase' = [phase EXCEPT ![c] = "out"]
           /\ streak' = IF streak < Threshold THEN streak + 1 ELSE streak
           /\ spell' = IF spell = Never /\ streak' >= Threshold THEN 0 ELSE spell

Tick == /\ spell # Never /\ spell < Patience
        /\ spell' = spell + 1
        /\ UNCHANGED <<streak, phase>>

Next == Tick \/ \E c \in Callers : Enter(c) \/ Shed(c) \/ Succeed(c) \/ Fail(c)

Spec == Init /\ [][Next]_vars
=============================================================================
