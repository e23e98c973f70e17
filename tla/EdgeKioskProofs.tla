--------------------------- MODULE EdgeKioskProofs ---------------------------
(***************************************************************************)
(* The safety properties of EdgeKiosk, for every scan interval and every   *)
(* number of faces.                                                        *)
(*                                                                         *)
(* What the page shows is tied to the request under way through the place  *)
(* of the capture thread: a frame is handled only when there is no request,*)
(* the text of a former verdict survives a new request only until the      *)
(* thread announces it, and between taking a result and showing it the     *)
(* page still says "verifying".  After the shutdown the queue is empty, so *)
(* there is nothing the worker could take.                                 *)
(***************************************************************************)
EXTENDS EdgeKiosk, TLAPS

\* The thread hands over one frame at a time.
OneRequest ==
    /\ pc \in {"open", "show", "detect", "handle"} => future = "none"
    /\ pc = "submitted" => future # "none"

\* The former verdict leaves the page before the next one is known.
VerdictGone ==
    /\ (future # "none" /\ pc \notin {"submitted", "killed"}) \/ pc = "show"
          => recognitionState # "success"
    /\ future = "done" \/ pc = "show" => verdict \in Verdicts

QueueEmpty == ~executorUp => future # "queued"

IInv ==
    /\ TypeOK
    /\ OneRequest
    /\ VerifyingIsInFlight
    /\ VerdictGone
    /\ SuccessIsOfLastRequest
    /\ QueueEmpty

-----------------------------------------------------------------------------
\* The texts are not compared with one another, only these facts are needed.
LEMMA TextsShown ==
  /\ Verdicts \subseteq Texts
  /\ "starting" \in Texts /\ "scanning" \in Texts /\ "cannot open" \in Texts
  /\ "no frame" \in Texts /\ "no face" \in Texts /\ "test mode" \in Texts
  /\ "verifying" \in Texts /\ "error" \in Texts
BY DEF Verdicts, Texts

\* A kiosk that has not opened its camera has sent nothing and shows nothing.
LEMMA InitInv == Init => IInv
<1> SUFFICES ASSUME Init PROVE IInv
  OBVIOUS
<1>1. TypeOK
  <2>1. enabled \in BOOLEAN /\ opened \in BOOLEAN /\ executorUp \in BOOLEAN
    BY DEF Init
  <2>2. crops \in 0 .. MaxCrops /\ sinceScan \in 0 .. Interval
    BY KioskAssumption DEF Init
  <2>3. QED BY <2>1, <2>2, TextsShown DEF Init, TypeOK
<1>2. OneRequest /\ VerifyingIsInFlight /\ VerdictGone /\ SuccessIsOfLastRequest /\ QueueEmpty
  BY DEF Init, OneRequest, VerifyingIsInFlight, VerdictGone, SuccessIsOfLastRequest, QueueEmpty
<1>3. QED BY <1>1, <1>2 DEF IInv

\* The types: the worker stops at the last crop, and only a finished request's
\* verdict reaches the page.
LEMMA TypeStep == TypeOK /\ VerdictGone /\ [Next]_vars => TypeOK'
<1> SUFFICES ASSUME TypeOK, VerdictGone, [Next]_vars PROVE TypeOK'
  OBVIOUS
<1> USE KioskAssumption DEF TypeOK, Show, snapshot
<1>1. CASE Open
  BY <1>1, TextsShown DEF Open
<1>2. CASE OpenFails
  BY <1>2, TextsShown DEF OpenFails
<1>3. CASE Poll
  BY <1>3 DEF Poll, Finished, Verdicts
<1>3a. CASE ShowResult
  BY <1>3a, TextsShown DEF ShowResult, VerdictGone
<1>3b. CASE Test
  BY <1>3b DEF Test
<1>4. CASE ReadNothing
  BY <1>4, TextsShown DEF ReadNothing
<1>5. ASSUME NEW encoded \in BOOLEAN, ReadFrame(encoded) PROVE TypeOK'
  BY <1>5 DEF ReadFrame
<1>5a. ASSUME NEW found \in 0 .. MaxCrops, Detect(found) PROVE TypeOK'
  BY <1>5a DEF Detect
<1>6. CASE Raise
  BY <1>6 DEF Raise
<1>7. CASE Close
  BY <1>7 DEF Close
<1>8. CASE HandleLocally
  <2>1. CASE crops = 0
    BY <1>8, <2>1, TextsShown DEF HandleLocally
  <2>2. CASE crops # 0
    BY <1>8, <2>2, TextsShown DEF HandleLocally
  <2>3. QED BY <2>1, <2>2
<1>9. CASE Submit
  BY <1>9 DEF Submit
<1>10. CASE ShowVerifying
  BY <1>10, TextsShown DEF ShowVerifying
<1>11. CASE StartJob \/ NextCrop
  BY <1>11 DEF StartJob, NextCrop
<1>12. ASSUME NEW v \in Verdicts, FinishJob(v) PROVE TypeOK'
  BY <1>12 DEF FinishJob
<1>13. CASE StopSet \/ StopCheck \/ StopJoin
  BY <1>13 DEF StopSet, StopCheck, StopJoin
<1>14. CASE StopCancel
  BY <1>14 DEF StopCancel, Cancelled
<1>15. CASE StopShutdown
  BY <1>15 DEF StopShutdown, Cancelled
<1>15a. CASE ExitBegins \/ Exit
  BY <1>15a DEF ExitBegins, Exit
<1>16. CASE Tick
  BY <1>16 DEF Tick
<1>17. CASE UNCHANGED vars
  BY <1>17 DEF vars
<1>18. QED
  BY <1>1, <1>2, <1>3, <1>3a, <1>3b, <1>4, <1>5, <1>5a, <1>6, <1>7, <1>8, <1>9, <1>10, <1>11,
     <1>12, <1>13, <1>14, <1>15, <1>15a, <1>16, <1>17 DEF Next, Thread, Device, Worker, Stop

\* What ties the page to the request is kept by every step.
LEMMA RequestStep ==
  IInv /\ [Next]_vars =>
    OneRequest' /\ VerifyingIsInFlight' /\ VerdictGone' /\ SuccessIsOfLastRequest'
<1> DEFINE Goal ==
      OneRequest' /\ VerifyingIsInFlight' /\ VerdictGone' /\ SuccessIsOfLastRequest'
<1> SUFFICES ASSUME IInv, [Next]_vars PROVE Goal
  OBVIOUS
<1> USE DEF IInv, OneRequest, VerifyingIsInFlight, VerdictGone, SuccessIsOfLastRequest,
            Show, snapshot
<1>1. CASE Open \/ OpenFails
  BY <1>1 DEF Open, OpenFails
<1>2. CASE Test \/ Poll
  BY <1>2 DEF Test, Poll, Finished, Verdicts
<1>2a. CASE ShowResult
  BY <1>2a DEF ShowResult
<1>3. CASE ReadNothing \/ Raise \/ Close
  BY <1>3 DEF ReadNothing, Raise, Close
<1>4. ASSUME NEW encoded \in BOOLEAN, ReadFrame(encoded) PROVE Goal
  BY <1>4 DEF ReadFrame
<1>4a. ASSUME NEW found \in 0 .. MaxCrops, Detect(found) PROVE Goal
  BY <1>4a DEF Detect
<1>5. CASE HandleLocally
  BY <1>5 DEF HandleLocally
<1>6. CASE Submit
  BY <1>6 DEF Submit
<1>7. CASE ShowVerifying
  BY <1>7 DEF ShowVerifying
<1>8. CASE StartJob \/ NextCrop
  BY <1>8 DEF StartJob, NextCrop
<1>9. ASSUME NEW v \in Verdicts, FinishJob(v) PROVE Goal
  BY <1>9 DEF FinishJob
<1>10. CASE StopSet \/ StopCheck \/ StopJoin
  BY <1>10 DEF StopSet, StopCheck, StopJoin
<1>11. CASE StopCancel \/ StopShutdown
  BY <1>11 DEF StopCancel, StopShutdown, Cancelled
<1>11a. CASE ExitBegins \/ Exit
  BY <1>11a DEF ExitBegins, Exit
<1>12. CASE Tick
  BY <1>12 DEF Tick
<1>13. CASE UNCHANGED vars
  BY <1>13 DEF vars
<1>14. QED
  BY <1>1, <1>2, <1>2a, <1>3, <1>4, <1>4a, <1>5, <1>6, <1>7, <1>8, <1>9, <1>10, <1>11,
     <1>11a, <1>12, <1>13 DEF Next, Thread, Device, Worker, Stop

\* The queue is emptied by the shutdown and submit() refuses to fill it again.
LEMMA QueueStep == QueueEmpty /\ [Next]_vars => QueueEmpty'
<1> SUFFICES ASSUME QueueEmpty, [Next]_vars PROVE QueueEmpty'
  OBVIOUS
<1>1. CASE Submit
  BY <1>1 DEF Submit, QueueEmpty
<1>2. CASE StopShutdown
  BY <1>2 DEF StopShutdown, Cancelled, QueueEmpty
<1>3. CASE UNCHANGED executorUp /\ (future' = "queued" => future = "queued")
  BY <1>3 DEF QueueEmpty
<1>4. ASSUME Thread \/ Device, ~Submit
      PROVE UNCHANGED executorUp /\ (future' = "queued" => future = "queued")
  BY <1>4 DEF Thread, Device, Open, OpenFails, Test, Poll, ShowResult, ReadNothing, ReadFrame,
      Detect, Raise, HandleLocally, ShowVerifying, Close
<1>5. ASSUME Worker \/ Stop \/ Tick, ~StopShutdown
      PROVE UNCHANGED executorUp /\ (future' = "queued" => future = "queued")
  BY <1>5 DEF Worker, StartJob, NextCrop, FinishJob, Stop, StopSet, StopCheck, StopCancel,
      StopJoin, Cancelled, ExitBegins, Exit, Tick
<1>6. CASE UNCHANGED vars
  BY <1>6 DEF vars, QueueEmpty
<1>7. QED BY <1>1, <1>2, <1>3, <1>4, <1>5, <1>6 DEF Next

\* IInv is inductive.
LEMMA StepInv == IInv /\ [Next]_vars => IInv'
BY TypeStep, RequestStep, QueueStep DEF IInv

\* IInv holds throughout.
LEMMA Invariant == Spec => []IInv
<1>1. QED BY InitInv, StepInv, PTL DEF Spec

-----------------------------------------------------------------------------
\* Every status the page may read is one of those the code writes, and the
\* worker never runs out of crops.
THEOREM TypeCorrect == Spec => []TypeOK
BY Invariant, PTL DEF IInv

\* "verifying" on the page and a request under way go together, but for the two
\* places where the capture thread is between the one and the other.
THEOREM VerifyingIsTrue == Spec => []VerifyingIsInFlight
BY Invariant, PTL DEF IInv

\* A success on the page belongs to the latest request sent.
THEOREM SuccessIsCurrent == Spec => []SuccessIsOfLastRequest
BY Invariant, PTL DEF IInv

\* After the shutdown of the executor no job is begun, and the one being sent only
\* comes to its end.
THEOREM SilentAfterShutdown == Spec => NoJobAfterShutdown
<1> DEFINE Ends == ~executorUp /\ future' = "sending"
                     => (future = "sending" /\ crops' <= crops)
<1>1. IInv /\ [Next]_vars => [Ends]_vars
  <2> SUFFICES ASSUME IInv, Next PROVE Ends
    OBVIOUS
  <2> USE DEF IInv, TypeOK
  <2>1. ASSUME Thread \/ Device, ~(\E found \in 0 .. MaxCrops : Detect(found)) PROVE Ends
    <3>1. crops' = crops
      BY <2>1 DEF Thread, Device, Open, OpenFails, Test, Poll, ShowResult, ReadNothing,
          ReadFrame, Raise, HandleLocally, Submit, ShowVerifying, Close
    <3>2. future' = "sending" => future = "sending"
      BY <2>1 DEF Thread, Device, Open, OpenFails, Test, Poll, ShowResult, ReadNothing,
          ReadFrame, Raise, HandleLocally, Submit, ShowVerifying, Close
    <3>3. QED BY <3>1, <3>2
  <2>2. ASSUME NEW found \in 0 .. MaxCrops, Detect(found) PROVE Ends
    BY <2>2 DEF Detect, OneRequest
  <2>3. CASE Worker
    BY <2>3 DEF QueueEmpty, Worker, StartJob, NextCrop, FinishJob
  <2>4. CASE Stop \/ Tick
    BY <2>4 DEF Stop, StopSet, StopCheck, StopCancel, StopJoin, StopShutdown, Cancelled,
        ExitBegins, Exit, Tick
  <2>5. QED BY <2>1, <2>2, <2>3, <2>4 DEF Next
<1>2. QED BY <1>1, Invariant, PTL DEF Spec, NoJobAfterShutdown

-----------------------------------------------------------------------------
\* The safety half of StopReleasesCamera: the device is held exactly by a thread
\* that is in its loop or on its way out of it, so that a thread that has ended,
\* on whichever way, has released the camera.
CameraHeld ==
    pc # "killed" =>
        (opened <=> pc \in {"test", "poll", "show", "read", "detect", "handle", "submitted",
                            "close"})

\* The thread opens the camera before the loop, and leaves the loop, also by an
\* exception or a refused submit(), through the `finally` that closes it.
THEOREM CameraIsReleased == Spec => [](pc = "ended" => ~opened)
<1>1. Init => CameraHeld
  BY DEF Init, CameraHeld
<1>2. CameraHeld /\ [Next]_vars => CameraHeld'
  <2> SUFFICES ASSUME CameraHeld, [Next]_vars PROVE CameraHeld'
    OBVIOUS
  <2> USE DEF CameraHeld
  <2>1. CASE Open
    BY <2>1 DEF Open
  <2>2. CASE OpenFails
    BY <2>2 DEF OpenFails
  <2>3. CASE Test \/ Poll \/ ShowResult
    BY <2>3 DEF Test, Poll, ShowResult
  <2>4. CASE ReadNothing
    BY <2>4 DEF ReadNothing
  <2>5. ASSUME NEW encoded \in BOOLEAN, ReadFrame(encoded) PROVE CameraHeld'
    BY <2>5 DEF ReadFrame
  <2>5a. ASSUME NEW found \in 0 .. MaxCrops, Detect(found) PROVE CameraHeld'
    BY <2>5a DEF Detect
  <2>6. CASE Raise
    BY <2>6 DEF Raise
  <2>7. CASE HandleLocally
    BY <2>7 DEF HandleLocally
  <2>8. CASE Submit
    BY <2>8 DEF Submit
  <2>9. CASE ShowVerifying
    BY <2>9 DEF ShowVerifying
  <2>10. CASE Close
    BY <2>10 DEF Close
  <2>11. CASE Worker \/ Stop \/ Tick
    BY <2>11 DEF Worker, StartJob, NextCrop, FinishJob, Stop, StopSet, StopCheck,
        StopCancel, StopJoin, StopShutdown, ExitBegins, Exit, Tick
  <2>12. CASE UNCHANGED vars
    BY <2>12 DEF vars
  <2>13. QED BY <2>1, <2>2, <2>3, <2>4, <2>5, <2>5a, <2>6, <2>7, <2>8, <2>9, <2>10, <2>11,
      <2>12 DEF Next, Thread, Device
<1>3. CameraHeld => (pc = "ended" => ~opened)
  BY DEF CameraHeld
<1>4. QED BY <1>1, <1>2, <1>3, PTL DEF Spec
=============================================================================
