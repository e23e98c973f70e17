----------------------------- MODULE EdgeKiosk -----------------------------
(***************************************************************************)
(* The web kiosk of the edge client: WebKioskRuntime of                    *)
(* edge-client/src/edge_client/ui/web_kiosk.py and send_crops_to_backend of*)
(* clients/backend.py.  Three threads share the runtime:                   *)
(*   - the capture thread runs _run: poll the result of the request under  *)
(*     way, read a frame, now and then look for faces and send them;       *)
(*   - the one worker of the executor sends the crops one after another;   *)
(*   - the server's thread calls start() and, at shutdown, stop(); then    *)
(*     the process ends.                                                   *)
(* The page reads the status under the lock at any time, so every state    *)
(* between two actions is one it may see.  The attribute _backend_future is*)
(* under no lock: what one thread reads of it another may have changed at  *)
(* its next step.                                                          *)
(*                                                                         *)
(* Time.  last_scan_time is compared with the clock after                  *)
(* scan_interval_seconds only: the model keeps its age, up to Interval.    *)
(* recognition_level is determined by recognition_state, and is left out.  *)
(***************************************************************************)
EXTENDS Naturals

CONSTANTS Interval,  \* scan_interval_seconds, in ticks
          MaxCrops   \* bound: faces found in one frame

ASSUME KioskAssumption ==
    /\ Interval \in Nat
    /\ MaxCrops \in Nat \ {0}

VARIABLES
    enabled,        \* config.backend_enabled
    pc,             \* next step of the capture thread
    opened,         \* the camera device is held
    crops,          \* faces of the frame being handled, or left to send
    sinceScan,      \* age of last_scan_time
    future,         \* _backend_future: "none" or the state of its job
    verdict,        \* result of the job, "none" while it has none
    cameraState, recognitionState, backendState,   \* KioskSnapshot
    stopper,        \* next step of stop() and of the end of the process
    executorUp      \* _backend_executor has not been shut down

snapshot == <<cameraState, recognitionState, backendState>>
vars == <<enabled, pc, opened, crops, sinceScan, future, verdict, snapshot,
          stopper, executorUp>>

\* The levels of send_crops_to_backend's result, and the texts of the page: that
\* of a verdict is named by its level.
Verdicts == {"success", "failed", "error"}
Texts == {"starting", "scanning", "cannot open", "no frame", "no face", "test mode",
          "verifying", "success", "failed", "error"}

Stopping == stopper # "up"

Init ==
    /\ enabled \in BOOLEAN
    /\ pc = "open"
    /\ opened = FALSE
    /\ crops = 0
    /\ sinceScan = Interval
    /\ future = "none"
    /\ verdict = "none"
    /\ cameraState = "STARTING"
    /\ recognitionState = "starting"
    /\ backendState = "idle"
    /\ stopper = "up"
    /\ executorUp = TRUE

\* _update_status; backend_state keeps its value where the call omits it.
Show(camera, recognition) ==
    /\ cameraState' = camera
    /\ recognitionState' = recognition

-----------------------------------------------------------------------------
\* The capture thread.

Open ==
    /\ pc = "open"
    /\ opened' = TRUE
    /\ Show("LIVE", "scanning")
    /\ pc' = "test"
    /\ UNCHANGED <<enabled, crops, sinceScan, future, verdict, backendState,
                   stopper, executorUp>>

\* The camera cannot be opened: the thread returns for good.
OpenFails ==
    /\ pc = "open"
    /\ Show("OFFLINE", "cannot open")
    /\ pc' = "ended"
    /\ UNCHANGED <<enabled, opened, crops, sinceScan, future, verdict, backendState,
                   stopper, executorUp>>

\* The top of the loop.
Test ==
    /\ pc = "test"
    /\ pc' = IF Stopping THEN "close" ELSE "poll"
    /\ UNCHANGED <<enabled, opened, crops, sinceScan, future, verdict, snapshot,
                   stopper, executorUp>>

Finished == future \in {"done", "cancelled"}

\* Mutant: the future is kept once its result is taken.
PollKeepsFuture ==
    /\ pc = "poll"
    /\ IF Finished
       THEN /\ verdict' = IF future = "done" THEN verdict ELSE "error"
            /\ pc' = "show"
       ELSE pc' = "read" /\ UNCHANGED verdict
    /\ UNCHANGED <<enabled, opened, crops, sinceScan, future, snapshot, stopper, executorUp>>

\* Mutant: a kiosk without a frame does not look at the result.
PollNeedsFrame ==
    /\ pc = "poll"
    /\ IF Finished /\ cameraState = "LIVE"
       THEN /\ future' = "none"
            /\ verdict' = IF future = "done" THEN verdict ELSE "error"
            /\ pc' = "show"
       ELSE pc' = "read" /\ UNCHANGED <<future, verdict>>
    /\ UNCHANGED <<enabled, opened, crops, sinceScan, snapshot, stopper, executorUp>>

\* The result of a finished request is taken, an exception for one cancelled,
\* and the future is given up before the page knows.
Poll ==
    /\ pc = "poll"
    /\ IF Finished
       THEN /\ future' = "none"
            /\ verdict' = IF future = "done" THEN verdict ELSE "error"
            /\ pc' = "show"
       ELSE pc' = "read" /\ UNCHANGED <<future, verdict>>
    /\ UNCHANGED <<enabled, opened, crops, sinceScan, snapshot, stopper, executorUp>>

ShowResult ==
    /\ pc = "show"
    /\ Show(cameraState, verdict)
    /\ backendState' = "idle"
    /\ pc' = "read"
    /\ UNCHANGED <<enabled, opened, crops, sinceScan, future, verdict, stopper, executorUp>>

\* read_frame returns None.
ReadNothing ==
    /\ pc = "read"
    /\ Show("OFFLINE", "no frame")
    /\ pc' = "test"
    /\ UNCHANGED <<enabled, opened, crops, sinceScan, future, verdict, backendState,
                   stopper, executorUp>>

\* A frame is published, where it can be encoded; it is searched for faces when
\* no request is under way and the last search is long enough ago.
ReadFrame(encoded) ==
    /\ pc = "read"
    /\ cameraState' = IF encoded THEN "LIVE" ELSE cameraState
    /\ IF future = "none" /\ sinceScan >= Interval
       THEN sinceScan' = 0 /\ pc' = "detect"
       ELSE pc' = "test" /\ UNCHANGED sinceScan
    /\ UNCHANGED <<enabled, opened, crops, future, verdict, recognitionState, backendState,
                   stopper, executorUp>>

Detect(found) ==
    /\ pc = "detect"
    /\ crops' = found
    /\ pc' = "handle"
    /\ UNCHANGED <<enabled, opened, sinceScan, future, verdict, snapshot, stopper, executorUp>>

\* Mutant: no `finally`.
RaiseKeepsCamera ==
    /\ pc \in {"read", "detect"}
    /\ pc' = "ended"
    /\ UNCHANGED <<enabled, opened, crops, sinceScan, future, verdict, snapshot,
                   stopper, executorUp>>

\* read_frame or the detector raises: `finally` closes the camera and the
\* thread is gone.
Raise ==
    /\ pc \in {"read", "detect"}
    /\ pc' = "close"
    /\ UNCHANGED <<enabled, opened, crops, sinceScan, future, verdict, snapshot,
                   stopper, executorUp>>

\* _handle_faces without a request to send.
HandleLocally ==
    /\ pc = "handle"
    /\ crops = 0 \/ ~enabled
    /\ Show("LIVE", IF crops = 0 THEN "no face" ELSE "test mode")
    /\ backendState' = IF crops = 0 THEN "idle" ELSE "disabled"
    /\ pc' = "test"
    /\ UNCHANGED <<enabled, opened, crops, sinceScan, future, verdict, stopper, executorUp>>

\* submit() raises once the executor is shut down, or the interpreter is.
Submit ==
    /\ pc = "handle"
    /\ crops > 0 /\ enabled
    /\ IF executorUp /\ stopper # "exiting"
       THEN future' = "queued" /\ verdict' = "none" /\ pc' = "submitted"
       ELSE pc' = "close" /\ UNCHANGED <<future, verdict>>
    /\ UNCHANGED <<enabled, opened, crops, sinceScan, snapshot, stopper, executorUp>>

\* Mutant: the text of the status is left as it was.
ShowVerifyingKeepsText ==
    /\ pc = "submitted"
    /\ cameraState' = "LIVE"
    /\ backendState' = "verifying"
    /\ pc' = "test"
    /\ UNCHANGED <<enabled, opened, crops, sinceScan, future, verdict, recognitionState,
                   stopper, executorUp>>

ShowVerifying ==
    /\ pc = "submitted"
    /\ Show("LIVE", "verifying")
    /\ backendState' = "verifying"
    /\ pc' = "test"
    /\ UNCHANGED <<enabled, opened, crops, sinceScan, future, verdict, stopper, executorUp>>

Close ==
    /\ pc = "close"
    /\ opened' = FALSE
    /\ pc' = "ended"
    /\ UNCHANGED <<enabled, crops, sinceScan, future, verdict, snapshot, stopper, executorUp>>

\* What the thread does by itself, and what waits for the device or the detector.
Thread == Test \/ Poll \/ ShowResult \/ HandleLocally \/ Submit \/ ShowVerifying \/ Close

Device ==
    \/ Open
    \/ OpenFails
    \/ ReadNothing
    \/ \E encoded \in BOOLEAN : ReadFrame(encoded)
    \/ \E found \in 0 .. MaxCrops : Detect(found)
    \/ Raise

-----------------------------------------------------------------------------
\* The worker: send_crops_to_backend.

StartJob ==
    /\ future = "queued"
    /\ future' = "sending"
    /\ UNCHANGED <<enabled, pc, opened, crops, sinceScan, verdict, snapshot,
                   stopper, executorUp>>

\* Mutant: the last crop is followed by one more.
NextCropPastEnd ==
    /\ future = "sending"
    /\ crops' = crops - 1
    /\ UNCHANGED <<enabled, pc, opened, sinceScan, future, verdict, snapshot,
                   stopper, executorUp>>

\* The crop at hand is not recognised: on to the next one, if there is one.
NextCrop ==
    /\ future = "sending"
    /\ crops > 1
    /\ crops' = crops - 1
    /\ UNCHANGED <<enabled, pc, opened, sinceScan, future, verdict, snapshot,
                   stopper, executorUp>>

\* Granted; refused, or the last crop not recognised; a 5xx or no answer in time.
FinishJob(v) ==
    /\ future = "sending"
    /\ verdict' = v
    /\ future' = "done"
    /\ UNCHANGED <<enabled, pc, opened, crops, sinceScan, snapshot, stopper, executorUp>>

Worker == StartJob \/ NextCrop \/ \E v \in Verdicts : FinishJob(v)

-----------------------------------------------------------------------------
\* stop(), at the shutdown of the server.

Cancelled == IF future = "queued" THEN "cancelled" ELSE future

StopSet ==
    /\ stopper = "up"
    /\ stopper' = "check"
    /\ UNCHANGED <<enabled, pc, opened, crops, sinceScan, future, verdict, snapshot, executorUp>>

StopCheck ==
    /\ stopper = "check"
    /\ stopper' = IF future = "none" THEN "join" ELSE "cancel"
    /\ UNCHANGED <<enabled, pc, opened, crops, sinceScan, future, verdict, snapshot, executorUp>>

\* cancel() on the attribute read a second time: the capture thread may have
\* set it to None meanwhile, and stop() raises.
StopCancel ==
    /\ stopper = "cancel"
    /\ stopper' = IF future = "none" THEN "raised" ELSE "join"
    /\ future' = Cancelled
    /\ UNCHANGED <<enabled, pc, opened, crops, sinceScan, verdict, snapshot, executorUp>>

\* join(timeout=2): the thread has ended, or two seconds are over.
StopJoin ==
    /\ stopper = "join"
    /\ stopper' = "shutdown"
    /\ UNCHANGED <<enabled, pc, opened, crops, sinceScan, future, verdict, snapshot, executorUp>>

\* Mutant: shutdown() without cancel_futures.
StopShutdownKeepsQueue ==
    /\ stopper = "shutdown"
    /\ stopper' = "down"
    /\ executorUp' = FALSE
    /\ UNCHANGED <<enabled, pc, opened, crops, sinceScan, future, verdict, snapshot>>

StopShutdown ==
    /\ stopper = "shutdown"
    /\ stopper' = "down"
    /\ executorUp' = FALSE
    /\ future' = Cancelled
    /\ UNCHANGED <<enabled, pc, opened, crops, sinceScan, verdict, snapshot>>

\* The server has left its lifespan, by stop() or by its exception: the
\* interpreter refuses new jobs, waits for those it has, and ends; a daemon thread
\* ends with it, wherever it is.
ExitBegins ==
    /\ stopper \in {"down", "raised"}
    /\ stopper' = "exiting"
    /\ UNCHANGED <<enabled, pc, opened, crops, sinceScan, future, verdict, snapshot, executorUp>>

Exit ==
    /\ stopper = "exiting"
    /\ future \notin {"queued", "sending"}
    /\ stopper' = "exited"
    /\ pc' = IF pc = "ended" THEN "ended" ELSE "killed"
    /\ UNCHANGED <<enabled, opened, crops, sinceScan, future, verdict, snapshot, executorUp>>

Stop == StopSet \/ StopCheck \/ StopCancel \/ StopJoin \/ StopShutdown \/ ExitBegins \/ Exit

Tick ==
    /\ sinceScan < Interval
    /\ sinceScan' = sinceScan + 1
    /\ UNCHANGED <<enabled, pc, opened, crops, future, verdict, snapshot, stopper, executorUp>>

Next == Thread \/ Device \/ Worker \/ Stop \/ Tick

Spec == Init /\ [][Next]_vars

\* The capture thread goes on, unless it waits for the device or the detector,
\* which may never return; the worker runs (requests gives up after its timeout),
\* and time passes.  Nothing is assumed of the shutdown.
FairSpec ==
    /\ Spec
    /\ WF_vars(Thread)
    /\ WF_vars(Worker)
    /\ WF_vars(Tick)

\* Moreover the device and the detector return, and the camera works again,
\* whenever it is asked often enough.
CameraSpec ==
    /\ FairSpec
    /\ WF_vars(Device)
    /\ SF_vars(ReadFrame(TRUE))
-----------------------------------------------------------------------------
TypeOK ==
    /\ enabled \in BOOLEAN
    /\ pc \in {"open", "test", "poll", "show", "read", "detect", "handle", "submitted",
               "close", "ended", "killed"}
    /\ opened \in BOOLEAN
    /\ crops \in 0 .. MaxCrops
    /\ sinceScan \in 0 .. Interval
    /\ future \in {"none", "queued", "sending", "done", "cancelled"}
    /\ verdict \in Verdicts \cup {"none"}
    /\ cameraState \in {"STARTING", "LIVE", "OFFLINE"}
    /\ recognitionState \in Texts
    /\ backendState \in {"idle", "disabled", "verifying"}
    /\ stopper \in {"up", "check", "cancel", "join", "shutdown", "down", "raised",
                    "exiting", "exited"}
    /\ executorUp \in BOOLEAN

\* The page says "verifying" as long as a request is under way, also when the loop
\* has ended with one.  It is late by one statement at either end: the request is
\* there before the status says so (web_kiosk.py 172-186), and is gone while the
\* status still says so (198-203), for whatever reason it was given up.
VerifyingIsInFlight ==
    pc # "killed" =>
        (backendState = "verifying" <=> (future # "none" /\ pc # "submitted") \/ pc = "show")

\* A success on the page is that of the latest request sent: once the next one
\* is announced, the former verdict is gone, whichever thread was slow.
SuccessIsOfLastRequest ==
    recognitionState = "success" /\ pc \notin {"submitted", "killed"} => verdict = "success"

\* Once stop() is done with the executor, no request is begun any more, though
\* join() may have given up on a capture thread that goes on submitting
\* (web_kiosk.py 70-76).  The one the worker was sending goes on, through the crops
\* it has left (backend.py 12-19).
NoJobAfterShutdown ==
    [][~executorUp /\ future' = "sending" => (future = "sending" /\ crops' <= crops)]_vars

\* The device or the detector does not return.
Hung == [](pc \in {"open", "read", "detect"})

\* A request under way is answered on the page, with a verdict or an error,
\* unless the capture thread ends or never gets out of its camera or detector: a
\* camera without frames does not keep the loop from taking the result.
Resolved ==
    future # "none" ~> (future = "none" /\ backendState = "idle") \/ pc \in {"ended", "killed"} \/ Hung

\* Once the shutdown has begun the capture thread ends and closes the camera, also
\* where stop() itself raises, whatever becomes of the request under way: only a
\* camera or a detector that does not return, and the end of the process, which
\* does not wait for a daemon thread, keep it from that (web_kiosk.py 67, 70-76,
\* 145-147).
StopReleasesCamera == Stopping ~> (pc = "ended" /\ ~opened) \/ pc = "killed" \/ Hung

\* "The kiosk remains online while the backend or camera recovers"
\* (web_kiosk.py 372): a kiosk that reports its camera offline gets over it,
\* where the camera does.
CameraRecovers == cameraState = "OFFLINE" ~> cameraState # "OFFLINE" \/ Stopping
=============================================================================
