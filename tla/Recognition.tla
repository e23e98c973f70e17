---------------------------- MODULE Recognition ----------------------------
(***************************************************************************)
(* POST /api/vision/recognize: RecognitionService.recognize_face and       *)
(* _save_event of backend/app/services/recognition_service.py, with the    *)
(* snapshot store and the recognition_events table they share.             *)
(*                                                                         *)
(* The endpoint is `async` but awaits only the upload: from there on the   *)
(* handler holds the event loop of its pod, so requests overlap only in    *)
(* different pods.  One action is one call to a shared service; the clock  *)
(* may pass to the next dedupe window between any two.                     *)
(*                                                                         *)
(* Each element of Requests is one HTTP request and serves also as the     *)
(* identity of its image and of the row it inserts.                        *)
(*                                                                         *)
(* Outside the repository: the face model and the vector query are         *)
(* abstracted to the match they return.  PostgreSQL's unique index on      *)
(* dedupe_key makes an INSERT wait for the transaction that has inserted   *)
(* the same key and not ended; it then fails if that one committed.        *)
(***************************************************************************)
EXTENDS Naturals, FiniteSets

CONSTANTS Requests,   \* HTTP requests, each handled once
          Employees,  \* employee codes with a face embedding
          Names,      \* object names: device segment and uploaded file name
          Pods,       \* how many pods serve, each one request at a time
          MaxBucket,  \* bound: the last dedupe window of a run
          None        \* no match, no key, no object

ASSUME RecognitionAssumption ==
    /\ None \notin Requests
    /\ None \notin Employees
    /\ None \notin Names
    /\ Pods \in Nat
    /\ MaxBucket \in Nat
    /\ None \notin Employees \X (0 .. MaxBucket)

VARIABLES bucket,    \* int(time.time() // dedupe_window_seconds)
          objects,   \* objects[n]: request whose image is stored under n, or None
          recorded,  \* requests whose recognition event is committed
          open,      \* requests whose transaction holds an uncommitted event
          pc,        \* next step of each request
          name,      \* its object_name
          match,     \* the employee the search returned, or None
          key,       \* event.dedupe_key: <<employee, bucket>>, or None
          answer     \* "none" until answered, then the status or the error

vars == <<bucket, objects, recorded, open, pc, name, match, key, answer>>

Keys == Employees \X (0 .. MaxBucket)

Init ==
    /\ bucket = 0
    /\ objects = [n \in Names |-> None]
    /\ recorded = {}
    /\ open = {}
    /\ pc = [r \in Requests |-> "idle"]
    /\ name = [r \in Requests |-> None]
    /\ match = [r \in Requests |-> None]
    /\ key = [r \in Requests |-> None]
    /\ answer = [r \in Requests |-> "none"]

InFlight == {r \in Requests : pc[r] \notin {"idle", "done"}}

Goto(r, place) == /\ pc' = [pc EXCEPT ![r] = place]
                  /\ UNCHANGED answer

Reply(r, what) == /\ pc' = [pc EXCEPT ![r] = "done"]
                  /\ answer' = [answer EXCEPT ![r] = what]

Status(r) == IF match[r] = None THEN "rejected" ELSE "granted"

-----------------------------------------------------------------------------
\* The upload is read; filename and device_name make the object name.
Receive(r, n) ==
    /\ pc[r] = "idle"
    /\ Cardinality(InFlight) < Pods
    /\ name' = [name EXCEPT ![r] = n]
    /\ Goto(r, "search")
    /\ UNCHANGED <<bucket, objects, recorded, open, match, key>>

\* Mutant: the snapshot is left for later, after the answer.
SearchThenSave(r, m) ==
    /\ pc[r] = "search"
    /\ match' = [match EXCEPT ![r] = m]
    /\ Goto(r, "save")
    /\ UNCHANGED <<bucket, objects, recorded, open, name, key>>

\* embed_face and search_similar_face: the best match above the threshold.
Search(r, m) ==
    /\ pc[r] = "search"
    /\ match' = [match EXCEPT ![r] = m]
    /\ Goto(r, "upload")
    /\ UNCHANGED <<bucket, objects, recorded, open, name, key>>

\* upload_snapshot puts the image under its name, over whatever is there; its
\* acknowledgement may be lost.
Upload(r) ==
    /\ pc[r] = "upload"
    /\ objects' = [objects EXCEPT ![name[r]] = r]
    /\ Goto(r, "save") \/ Reply(r, "error")
    /\ UNCHANGED <<bucket, recorded, open, name, match, key>>

\* Mutant: the window is rounded up instead of down.
BuildKeyRoundsUp(r) ==
    /\ pc[r] = "save"
    /\ key' = [key EXCEPT ![r] = IF match[r] = None THEN None ELSE <<match[r], bucket + 1>>]
    /\ Goto(r, "flush")
    /\ UNCHANGED <<bucket, objects, recorded, open, name, match>>

\* _build_dedupe_key, for matched events only.
BuildKey(r) ==
    /\ pc[r] = "save"
    /\ key' = [key EXCEPT ![r] = IF match[r] = None THEN None ELSE <<match[r], bucket>>]
    /\ Goto(r, "flush")
    /\ UNCHANGED <<bucket, objects, recorded, open, name, match>>

\* Rows of q and r collide on the unique index, which ignores NULL.
SameKey(q, r) == q # r /\ key[q] = key[r] /\ key[r] # None

\* Mutant: the key is looked up before the INSERT and has no unique index.
FlushWithoutIndex(r) ==
    /\ pc[r] = "flush"
    /\ IF \E q \in recorded : SameKey(q, r)
       THEN Reply(r, Status(r)) /\ UNCHANGED open
       ELSE Goto(r, "commit") /\ open' = open \cup {r}
    /\ UNCHANGED <<bucket, objects, recorded, name, match, key>>

\* Mutant: a key that another transaction only holds counts as a duplicate.
FlushTrustsOpen(r) ==
    /\ pc[r] = "flush"
    /\ IF \E q \in recorded \cup open : SameKey(q, r)
       THEN Reply(r, Status(r)) /\ UNCHANGED open
       ELSE Goto(r, "commit") /\ open' = open \cup {r}
    /\ UNCHANGED <<bucket, objects, recorded, name, match, key>>

\* session.flush() inserts the row, unless a committed row has its key: then
\* the IntegrityError is taken for success and the status is answered.
Flush(r) ==
    /\ pc[r] = "flush"
    /\ \A q \in open : ~SameKey(q, r)
    /\ IF \E q \in recorded : SameKey(q, r)
       THEN Reply(r, Status(r)) /\ UNCHANGED open
       ELSE Goto(r, "commit") /\ open' = open \cup {r}
    /\ UNCHANGED <<bucket, objects, recorded, name, match, key>>

\* The commit is applied; if its acknowledgement is lost the retries fail, the
\* session is rolled back and the request ends in an error all the same.
Commit(r) ==
    /\ pc[r] = "commit"
    /\ recorded' = recorded \cup {r}
    /\ open' = open \ {r}
    /\ Reply(r, Status(r)) \/ Reply(r, "error")
    /\ UNCHANGED <<bucket, objects, name, match, key>>

\* Mutant: the failed transaction is not rolled back.
CommitFailsOpen(r) ==
    /\ pc[r] = "commit"
    /\ Reply(r, "error")
    /\ UNCHANGED <<bucket, objects, recorded, open, name, match, key>>

\* The commit is not applied, or DB_CIRCUIT_BREAKER turns it away: rollback.
CommitFails(r) ==
    /\ pc[r] = "commit"
    /\ open' = open \ {r}
    /\ Reply(r, "error")
    /\ UNCHANGED <<bucket, objects, recorded, name, match, key>>

\* Any other error before the event is saved (no face, no model, an open
\* breaker of the search or of the store), or the death of the pod, which ends
\* the request's transaction.
Fail(r) ==
    /\ r \in InFlight
    /\ open' = open \ {r}
    /\ Reply(r, "error")
    /\ UNCHANGED <<bucket, objects, recorded, name, match, key>>

NextWindow ==
    /\ bucket < MaxBucket
    /\ bucket' = bucket + 1
    /\ UNCHANGED <<objects, recorded, open, pc, name, match, key, answer>>

Proceed(r) ==
    \/ \E m \in Employees \cup {None} : Search(r, m)
    \/ Upload(r)
    \/ BuildKey(r)
    \/ Flush(r)
    \/ Commit(r)
    \/ CommitFails(r)

Next ==
    \/ NextWindow
    \/ \E r \in Requests : Proceed(r) \/ Fail(r) \/ \E n \in Names : Receive(r, n)

Spec == Init /\ [][Next]_vars

\* A pod that runs makes progress; a request waiting on the index makes none.
FairSpec == Spec /\ \A r \in Requests : WF_vars(Proceed(r))
-----------------------------------------------------------------------------
TypeOK ==
    /\ bucket \in 0 .. MaxBucket
    /\ objects \in [Names -> Requests \cup {None}]
    /\ recorded \subseteq Requests
    /\ open \subseteq Requests
    /\ pc \in [Requests -> {"idle", "search", "upload", "save", "flush", "commit", "done"}]
    /\ name \in [Requests -> Names \cup {None}]
    /\ match \in [Requests -> Employees \cup {None}]
    /\ key \in [Requests -> Keys \cup {None}]
    /\ answer \in [Requests -> {"none", "granted", "rejected", "error"}]

\* "Second event with the same dedupe_key within the same time window is
\* discarded" (integration/test_recognition_service.py:92), also when they are saved by
\* different pods at once or across a rollback.
OneEventPerWindow ==
    \A q, r \in recorded \cup open : ~SameKey(q, r)

\* The log accounts for every answer: a face is granted only with a committed
\* event of that employee and window, its own or the one it was dropped for,
\* and a rejected face always has an event of its own.
AnswerIsRecorded ==
    \A r \in Requests :
        /\ answer[r] = "granted" => \E q \in recorded : q = r \/ SameKey(q, r)
        /\ answer[r] = "rejected" => r \in recorded

\* The log as its readers see it: the committed events.
Log == {[of |-> r, key |-> key[r]] : r \in recorded}

Abstract == INSTANCE SightingLog WITH
    Sightings <- Requests, log <- Log, told <- answer

\* What recognize_face promises: the log only grows, one event per employee and
\* window, and accounts for every answer given by any pod, whoever's transaction
\* made the answer a duplicate and whatever became of that.
Logs == Abstract!Spec

\* snapshot_url of a saved event always points to an object that is there.
RecordedHasSnapshot == \A r \in recorded : objects[name[r]] # None

\* Requests that wait for one another's keys do not wait for ever.
Answered == \A r \in Requests : pc[r] # "idle" ~> pc[r] = "done"
=============================================================================
