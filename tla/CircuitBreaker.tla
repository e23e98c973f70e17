--------------------------- MODULE CircuitBreaker ---------------------------
(***************************************************************************)
(* CircuitBreaker and retry_operation of backend/app/utils/resilience.py,  *)
(* used together as everywhere in the backend:                             *)
(*     breaker.call(retry_operation(max_attempts)(operation))              *)
(* by the threads and requests of one process.  The lock makes each of     *)
(* the three critical sections of call() one step (admission, recording a  *)
(* success, recording a failure); the operation and its retries run        *)
(* outside the lock.                                                       *)
(*                                                                         *)
(* Time.  call() reads time.monotonic() once, at admission (`now`), and    *)
(* stores that value as _reopened_at when the call fails.  Only differences*)
(* with the present clock are ever compared, so the model keeps the age of *)
(* each reading instead of the clock: elapsed[c] is clock - now of caller  *)
(* c's call and sinceReopened is clock - _reopened_at, both counted in     *)
(* ticks up to Recovery, beyond which the code cannot tell them apart.     *)
(*                                                                         *)
(* failure_count is compared with failure_threshold only, so it stops at   *)
(* Threshold here; the code lets it grow while probes keep failing.        *)
(*                                                                         *)
(* sinceOpened is a history variable: how long ago the breaker opened,     *)
(* which the code does not keep; later failures move _reopened_at only.    *)
(***************************************************************************)
EXTENDS Naturals

CONSTANTS Callers,      \* threads that share the breaker
          Threshold,    \* failure_threshold
          Recovery,     \* recovery_timeout, in ticks
          MaxAttempts,  \* max_attempts of retry_operation
          Never         \* _reopened_at is None

ASSUME BreakerAssumption ==
    /\ Threshold \in Nat \ {0}
    /\ Recovery \in Nat
    /\ MaxAttempts \in Nat \ {0}
    /\ Never \notin Nat

VARIABLES state,          \* "closed", "open" or "half_open"
          failureCount,   \* failure_count
          sinceReopened,  \* age of _reopened_at, or Never
          sinceOpened,    \* history: age of the present opening, or Never
          pc,             \* pc[c]: where caller c is in call()
          attempt,        \* attempt[c]: attempt of retry_operation under way
          elapsed         \* elapsed[c]: age of caller c's `now`

breaker == <<state, failureCount, sinceReopened, sinceOpened>>
vars == <<breaker, pc, attempt, elapsed>>

Ages == 0 .. Recovery

\* A caller inside call() after admission: trying the operation, or back from
\* it with a result the breaker has not recorded yet.
Running(c) == pc[c] \in {"trying", "returned", "raised"}

Init ==
    /\ state = "closed"
    /\ failureCount = 0
    /\ sinceReopened = Never
    /\ sinceOpened = Never
    /\ pc = [c \in Callers |-> "idle"]
    /\ attempt = [c \in Callers |-> 0]
    /\ elapsed = [c \in Callers |-> 0]

\* The test of line 33: the recovery window of the last opening is not over.
WindowOpen == sinceReopened # Never /\ sinceReopened < Recovery

Begin(c) ==
    /\ pc' = [pc EXCEPT ![c] = "trying"]
    /\ attempt' = [attempt EXCEPT ![c] = 1]
    /\ elapsed' = [elapsed EXCEPT ![c] = 0]

Leave(c, place) ==
    /\ pc' = [pc EXCEPT ![c] = place]
    /\ attempt' = [attempt EXCEPT ![c] = 0]
    /\ elapsed' = [elapsed EXCEPT ![c] = 0]

\* A call while the breaker is closed or half open: no limit on concurrency.
Admit(c) ==
    /\ ~Running(c)
    /\ state # "open"
    /\ Begin(c)
    /\ UNCHANGED breaker

\* Mutant: the probe does not wait for the recovery window.
ProbeAtOnce(c) ==
    /\ ~Running(c)
    /\ state = "open"
    /\ state' = "half_open"
    /\ sinceOpened' = Never
    /\ Begin(c)
    /\ UNCHANGED <<failureCount, sinceReopened>>

\* The first call after the recovery window turns the breaker half open.
Probe(c) ==
    /\ ~Running(c)
    /\ state = "open"
    /\ ~WindowOpen
    /\ state' = "half_open"
    /\ sinceOpened' = Never
    /\ Begin(c)
    /\ UNCHANGED <<failureCount, sinceReopened>>

\* Mutant: a rejected call starts the recovery window again.
RejectExtendsWindow(c) ==
    /\ ~Running(c)
    /\ state = "open"
    /\ WindowOpen
    /\ sinceReopened' = 0
    /\ Leave(c, "rejected")
    /\ UNCHANGED <<state, failureCount, sinceOpened>>

\* RuntimeError("Circuit breaker is open; ...") without running the operation.
Reject(c) ==
    /\ ~Running(c)
    /\ state = "open"
    /\ WindowOpen
    /\ Leave(c, "rejected")
    /\ UNCHANGED breaker

\* One attempt of the operation returns.
AttemptSucceeds(c) ==
    /\ pc[c] = "trying"
    /\ pc' = [pc EXCEPT ![c] = "returned"]
    /\ UNCHANGED <<breaker, attempt, elapsed>>

\* Mutant: the loop over attempts runs once too often.
AttemptFailsAtLast(c) ==
    /\ pc[c] = "trying"
    /\ attempt[c] <= MaxAttempts
    /\ attempt' = [attempt EXCEPT ![c] = @ + 1]
    /\ UNCHANGED <<breaker, pc, elapsed>>

\* One attempt raises; after the sleep the next attempt begins.
AttemptFails(c) ==
    /\ pc[c] = "trying"
    /\ attempt[c] < MaxAttempts
    /\ attempt' = [attempt EXCEPT ![c] = @ + 1]
    /\ UNCHANGED <<breaker, pc, elapsed>>

\* The last attempt raises: retry_operation lets the exception out.
AttemptsExhausted(c) ==
    /\ pc[c] = "trying"
    /\ attempt[c] = MaxAttempts
    /\ pc' = [pc EXCEPT ![c] = "raised"]
    /\ UNCHANGED <<breaker, attempt, elapsed>>

\* The else branch of call(): whatever happened meanwhile, the breaker closes.
RecordSuccess(c) ==
    /\ pc[c] = "returned"
    /\ failureCount' = 0
    /\ state' = "closed"
    /\ sinceReopened' = Never
    /\ sinceOpened' = Never
    /\ Leave(c, "idle")

Counted == IF failureCount < Threshold THEN failureCount + 1 ELSE Threshold

\* Mutant: the failure that reaches the threshold does not open the breaker.
RecordFailureOffByOne(c) ==
    /\ pc[c] = "raised"
    /\ failureCount' = Counted
    /\ IF failureCount >= Threshold
       THEN /\ state' = "open"
            /\ sinceReopened' = elapsed[c]
            /\ sinceOpened' = IF state = "open" THEN sinceOpened ELSE 0
       ELSE UNCHANGED <<state, sinceReopened, sinceOpened>>
    /\ Leave(c, "idle")

\* Mutant: the window starts at the failure.
RecordFailureRestarts(c) ==
    /\ pc[c] = "raised"
    /\ failureCount' = Counted
    /\ IF Counted >= Threshold
       THEN /\ state' = "open"
            /\ sinceReopened' = 0
            /\ sinceOpened' = IF state = "open" THEN sinceOpened ELSE 0
       ELSE UNCHANGED <<state, sinceReopened, sinceOpened>>
    /\ Leave(c, "idle")

\* The except branch: the window starts at the reading taken at admission,
\* not at the moment of the failure.
RecordFailure(c) ==
    /\ pc[c] = "raised"
    /\ failureCount' = Counted
    /\ IF Counted >= Threshold
       THEN /\ state' = "open"
            /\ sinceReopened' = elapsed[c]
            /\ sinceOpened' = IF state = "open" THEN sinceOpened ELSE 0
       ELSE UNCHANGED <<state, sinceReopened, sinceOpened>>
    /\ Leave(c, "idle")

Older(age) == IF age < Recovery THEN age + 1 ELSE age

Tick ==
    /\ elapsed' = [c \in Callers |-> IF Running(c) THEN Older(elapsed[c]) ELSE 0]
    /\ sinceReopened' = IF sinceReopened = Never THEN Never ELSE Older(sinceReopened)
    /\ sinceOpened' = IF sinceOpened = Never THEN Never ELSE Older(sinceOpened)
    /\ UNCHANGED <<state, failureCount, pc, attempt>>

Call(c) == Admit(c) \/ Probe(c) \/ Reject(c)

Finish(c) ==
    \/ AttemptSucceeds(c)
    \/ AttemptFails(c)
    \/ AttemptsExhausted(c)
    \/ RecordSuccess(c)
    \/ RecordFailure(c)

Next == Tick \/ \E c \in Callers : Call(c) \/ Finish(c)

Spec == Init /\ [][Next]_vars

\* Time passes, and some client keeps calling: recognition requests keep
\* arriving at every process of the backend.
FairSpec == Spec /\ WF_vars(Tick) /\ \A c \in Callers : WF_vars(Call(c))
-----------------------------------------------------------------------------
TypeOK ==
    /\ state \in {"closed", "open", "half_open"}
    /\ failureCount \in 0 .. Threshold
    /\ sinceReopened \in Ages \cup {Never}
    /\ sinceOpened \in Ages \cup {Never}
    /\ pc \in [Callers -> {"idle", "rejected", "trying", "returned", "raised"}]
    /\ attempt \in [Callers -> 0 .. MaxAttempts]
    /\ elapsed \in [Callers -> Ages]

\* state, failure_count and _reopened_at are written by different branches and
\* by racing callers, yet they always agree: the breaker is closed exactly when
\* fewer than Threshold failures stand, and exactly then there is no window.
\* So one failed probe is enough to open it again, and the None that line 33
\* guards against never meets an open breaker.
Coherent ==
    /\ state = "closed" <=> failureCount < Threshold
    /\ state = "closed" <=> sinceReopened = Never

\* Half open is never a resting state: some admitted call is still on its way
\* to record its result, so the breaker cannot get stuck admitting everybody
\* to an operation that nobody reports on.
ProbeInFlight == state = "half_open" => \E c \in Callers : Running(c)

\* The caller as the promise sees it.
Phase == [c \in Callers |-> IF Running(c) THEN "busy"
                           ELSE IF pc[c] = "rejected" THEN "shed" ELSE "out"]

Abstract == INSTANCE LoadShedding WITH
    Patience <- Recovery, streak <- failureCount, phase <- Phase, spell <- sinceOpened

\* What call() promises: a call is turned away only after Threshold failures
\* with no success in between, whatever the interleaving of late results, and
\* for no longer than recovery_timeout from then on without a trial, although
\* each late failure sets _reopened_at anew.
Sheds == Abstract!Spec

\* Inside its recovery window an open breaker stays open, except that a call
\* admitted before it opened may still report a success and close it.
WindowCutOnlyBySuccess ==
    [][state = "open" /\ WindowOpen =>
        state' = "open" \/ \E c \in Callers : pc[c] = "returned" /\ ~Running(c)']_vars

\* An open breaker is tried again, even though failures of calls admitted
\* before it opened keep moving the window while it is open.
OpenIsTriedAgain == state = "open" ~> state # "open"
=============================================================================
