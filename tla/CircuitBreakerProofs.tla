------------------------ MODULE CircuitBreakerProofs ------------------------
(***************************************************************************)
(* The invariants of CircuitBreaker and its refinement of LoadShedding, for*)
(* any set of callers, threshold, recovery window and number of attempts.  *)
(***************************************************************************)
EXTENDS CircuitBreaker, TLAPS

\* Whoever is inside while the breaker is open was admitted before it opened, so
\* that no failure still to come can start a window later than the opening.
Bounded ==
    /\ state = "open" <=> sinceOpened # Never
    /\ state = "open" =>
         /\ sinceReopened >= sinceOpened
         /\ \A c \in Callers : Running(c) => elapsed[c] >= sinceOpened

\* All four are preserved together.
IInv == TypeOK /\ Coherent /\ ProbeInFlight /\ Bounded

\* A new breaker is closed, with nothing counted and nobody inside.
LEMMA InitInv == Init => IInv
  BY BreakerAssumption DEF Init, IInv, TypeOK, Coherent, ProbeInFlight, Bounded, Ages

\* Admissions, attempts, the two ways of recording a result and the clock keep the
\* invariant, one step of the proof for each.
LEMMA StepInv == IInv /\ [Next]_vars => IInv'
<1> SUFFICES ASSUME IInv, [Next]_vars PROVE IInv'
  OBVIOUS
<1> USE BreakerAssumption DEF IInv, TypeOK, Coherent, ProbeInFlight, Bounded, Ages, Running
<1>1. CASE UNCHANGED vars
  BY <1>1 DEF vars, breaker
<1>2. CASE Tick
  <2>1. TypeOK' /\ Coherent' /\ ProbeInFlight'
    BY <1>2 DEF Tick, Older
  <2>2. Bounded'
    <3>1. state' = "open" <=> sinceOpened' # Never
      BY <1>2 DEF Tick, Older
    <3>2. ASSUME state' = "open" PROVE sinceReopened' >= sinceOpened'
      BY <1>2, <3>2 DEF Tick, Older
    <3>3. ASSUME state' = "open", NEW c \in Callers, Running(c)'
          PROVE  elapsed'[c] >= sinceOpened'
      BY <1>2, <3>3 DEF Tick, Older
    <3> QED
      BY <3>1, <3>2, <3>3
  <2> QED
    BY <2>1, <2>2
<1>3. ASSUME NEW c \in Callers, Admit(c) PROVE IInv'
  BY <1>3 DEF Admit, Begin, breaker
<1>4. ASSUME NEW c \in Callers, Probe(c) PROVE IInv'
  BY <1>4 DEF Probe, Begin, breaker
<1>5. ASSUME NEW c \in Callers, Reject(c) PROVE IInv'
  BY <1>5 DEF Reject, Leave, breaker
<1>6. ASSUME NEW c \in Callers, AttemptSucceeds(c) PROVE IInv'
  BY <1>6 DEF AttemptSucceeds, breaker
<1>7. ASSUME NEW c \in Callers, AttemptFails(c) PROVE IInv'
  BY <1>7 DEF AttemptFails, breaker
<1>8. ASSUME NEW c \in Callers, AttemptsExhausted(c) PROVE IInv'
  BY <1>8 DEF AttemptsExhausted, breaker
<1>9. ASSUME NEW c \in Callers, RecordSuccess(c) PROVE IInv'
  BY <1>9 DEF RecordSuccess, Leave
<1>10. ASSUME NEW c \in Callers, RecordFailure(c) PROVE IInv'
  BY <1>10 DEF RecordFailure, Leave, Counted
<1> QED
  BY <1>1, <1>2, <1>3, <1>4, <1>5, <1>6, <1>7, <1>8, <1>9, <1>10
     DEF Next, Call, Finish

\* Every variable keeps its type: no attempt is numbered beyond max_attempts.
THEOREM TypeCorrect == Spec => []TypeOK
  BY InitInv, StepInv, PTL DEF Spec, IInv

\* Closed, below the threshold and without a window are one and the same, however
\* the results of racing calls are recorded.
THEOREM StateAgreesWithCount == Spec => []Coherent
  BY InitInv, StepInv, PTL DEF Spec, IInv

\* A half open breaker always has a call inside whose result will move it on.
THEOREM HalfOpenIsProbed == Spec => []ProbeInFlight
  BY InitInv, StepInv, PTL DEF Spec, IInv

\* Inside the recovery window only a success recorded late closes the breaker:
\* Probe, the one other way out of "open", is disabled there.
THEOREM WindowHolds == Spec => WindowCutOnlyBySuccess
<1>1. IInv /\ [Next]_vars =>
        [state = "open" /\ WindowOpen =>
            state' = "open" \/ \E c \in Callers : pc[c] = "returned" /\ ~Running(c)']_vars
  <2> SUFFICES ASSUME IInv, Next, state = "open", WindowOpen, state' # "open"
               PROVE  \E c \in Callers : pc[c] = "returned" /\ ~Running(c)'
    BY DEF vars
  <2>1. PICK c \in Callers : RecordSuccess(c)
    BY DEF Next, Tick, Call, Finish, Admit, Probe, Reject, AttemptSucceeds,
           AttemptFails, AttemptsExhausted, RecordFailure, breaker
  <2> QED
    BY <2>1 DEF RecordSuccess, Leave, Running, IInv, TypeOK
<1> QED
  BY <1>1, InitInv, StepInv, PTL DEF Spec, WindowCutOnlyBySuccess

\* However often failures of slow calls set _reopened_at anew while it is open,
\* recovery_timeout after it opened the breaker lets the next call through.
THEOREM RecoveryIsTried ==
  Spec => [](state = "open" /\ sinceOpened = Recovery => ~WindowOpen)
<1>1. IInv => (state = "open" /\ sinceOpened = Recovery => ~WindowOpen)
  BY BreakerAssumption DEF IInv, TypeOK, Bounded, WindowOpen, Ages
<1> QED
  BY <1>1, InitInv, StepInv, PTL DEF Spec

-----------------------------------------------------------------------------
\* The refinement: every step of the breaker is a step of LoadShedding on the
\* failure count, the callers' phases and the age of the opening, or leaves them
\* alone.
LEMMA InitRefines == Init => Abstract!Init
  BY DEF Init, Abstract!Init, Phase, Running

\* A caller that moves in pc moves likewise in the abstract phase, alone.
LEMMA PhaseMoves ==
  ASSUME TypeOK, NEW c \in Callers, NEW place \in {"idle", "rejected", "trying"},
         pc' = [pc EXCEPT ![c] = place]
  PROVE  Phase' = [Phase EXCEPT ![c] = IF place = "trying" THEN "busy"
                                       ELSE IF place = "rejected" THEN "shed" ELSE "out"]
  BY DEF TypeOK, Phase, Running

\* A step of the breaker is one step of the promise, or none that it can see.
LEMMA StepRefines == IInv /\ [Next]_vars => [Abstract!Next]_(Abstract!vars)
<1> SUFFICES ASSUME IInv, [Next]_vars PROVE [Abstract!Next]_(Abstract!vars)
  OBVIOUS
<1> USE BreakerAssumption DEF IInv, TypeOK, Running, Phase, Abstract!vars, Abstract!Next
<1>1. CASE UNCHANGED vars
  BY <1>1 DEF vars, breaker
<1>2. CASE Tick
  <2>1. UNCHANGED <<failureCount, Phase>>
    BY <1>2 DEF Tick
  <2>2. \/ UNCHANGED sinceOpened
        \/ sinceOpened # Never /\ sinceOpened < Recovery /\ sinceOpened' = sinceOpened + 1
    BY <1>2 DEF Tick, Older, Ages
  <2> QED
    BY <2>1, <2>2 DEF Abstract!Tick
<1>3. ASSUME NEW c \in Callers, Admit(c) \/ Probe(c) PROVE Abstract!Enter(c)
  <2>1. Phase' = [Phase EXCEPT ![c] = "busy"]
    BY <1>3, PhaseMoves DEF Admit, Probe, Begin
  <2>2. Phase[c] # "busy" /\ UNCHANGED failureCount /\ sinceOpened' = Never
    BY <1>3 DEF Admit, Probe, breaker, Bounded
  <2> QED
    BY <2>1, <2>2 DEF Abstract!Enter
<1>4. ASSUME NEW c \in Callers, Reject(c) PROVE Abstract!Shed(c)
  <2>1. Phase' = [Phase EXCEPT ![c] = "shed"]
    BY <1>4, PhaseMoves DEF Reject, Leave
  <2>2. Phase[c] # "busy" /\ failureCount >= Threshold /\ UNCHANGED <<failureCount, sinceOpened>>
    BY <1>4 DEF Reject, breaker, Coherent
  <2>3. sinceOpened # Never /\ sinceOpened < Recovery
    BY <1>4 DEF Reject, WindowOpen, Bounded, Ages
  <2> QED
    BY <2>1, <2>2, <2>3 DEF Abstract!Shed
<1>5. ASSUME NEW c \in Callers,
             AttemptSucceeds(c) \/ AttemptFails(c) \/ AttemptsExhausted(c)
      PROVE  UNCHANGED Abstract!vars
  BY <1>5 DEF AttemptSucceeds, AttemptFails, AttemptsExhausted, breaker
<1>6. ASSUME NEW c \in Callers, RecordSuccess(c) PROVE Abstract!Succeed(c)
  <2>1. Phase' = [Phase EXCEPT ![c] = "out"]
    BY <1>6, PhaseMoves DEF RecordSuccess, Leave
  <2> QED
    BY <1>6, <2>1 DEF RecordSuccess, Abstract!Succeed
<1>7. ASSUME NEW c \in Callers, RecordFailure(c) PROVE Abstract!Fail(c)
  <2>1. failureCount' = IF failureCount < Threshold THEN failureCount + 1 ELSE failureCount
    BY <1>7 DEF RecordFailure, Counted
  <2>2. pc[c] = "raised" /\ pc' = [pc EXCEPT ![c] = "idle"]
    BY <1>7 DEF RecordFailure, Leave
  <2>3. sinceOpened' = IF sinceOpened = Never /\ failureCount' >= Threshold THEN 0 ELSE sinceOpened
    BY <1>7 DEF RecordFailure, Counted, Coherent, Bounded
  <2>4. Phase[c] = "busy" /\ Phase' = [Phase EXCEPT ![c] = "out"]
    BY <2>2, PhaseMoves
  <2> QED
    BY <2>1, <2>3, <2>4 DEF Abstract!Fail
<1> QED
  BY <1>1, <1>2, <1>3, <1>4, <1>5, <1>6, <1>7 DEF Next, Call, Finish

\* The breaker implements its promise: nobody is turned away without Threshold
\* reported failures in a row, or later than recovery_timeout after it opened.
THEOREM ImplementsLoadShedding == Spec => Sheds
  BY InitRefines, StepRefines, InitInv, StepInv, PTL DEF Spec, Sheds, Abstract!Spec
=============================================================================
