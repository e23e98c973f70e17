--------------------------- MODULE FaceEnrollment ---------------------------
(***************************************************************************)
(* The admin handlers of backend/app/api/endpoints_admin.py that deactivate*)
(* and restore employees, enroll faces and run enrollment sessions, with   *)
(* the services they call and the tables those share.                      *)
(*                                                                         *)
(* A handler is a sequence of SELECTs and commits, with an `await` where it*)
(* reads the uploads; nothing spans two commits, so other requests run     *)
(* between any two of them: `def` handlers in the thread pool, `async`     *)
(* handlers at their awaits, and every handler in the other pods of the    *)
(* backend.  One action is one such step.  The repository's tests exercise *)
(* one request at a time; the history variables single out the overlaps    *)
(* that break a promise: two requests on one session (`contested'), an     *)
(* enrolment still under way when its employee is deactivated (`overtaken')*)
(*                                                                         *)
(* Each element of Requests is one HTTP request and serves also as the     *)
(* identity of what it inserts: the session it issues, the embedding row.  *)
(*                                                                         *)
(* Database.  PostgreSQL at READ COMMITTED through one SQLAlchemy session  *)
(* per request (external): a commit writes only the columns the handler    *)
(* changed with respect to what it had loaded, an UPDATE whose row is gone *)
(* raises, a DELETE whose row is gone does not, a second row for an        *)
(* employee_code violates the unique index.  After a failed commit the     *)
(* session refuses every retry, so retry_operation only repeats the error. *)
(***************************************************************************)
EXTENDS Naturals, FiniteSets

CONSTANTS Requests,     \* HTTP requests, each handled once
          Employees,    \* employee codes, all registered and active at first
          MaxInFlight,  \* requests handled at the same time
          None          \* no row, no token, no job

ASSUME EnrollmentAssumption ==
    /\ None \notin Requests
    /\ None \notin Employees
    /\ None \notin [row : Requests, by : Requests]
    /\ MaxInFlight \in Nat

VARIABLES
    active,      \* employees.active
    deletedAt,   \* employees.deleted_at is set
    embedding,   \* the employee's row of face_embeddings, or None
    session,     \* status of the enrollment session request s issued
    due,         \* expires_at of session s has passed
    audit,       \* requests whose audit event is committed
    pc,          \* next step of each request
    job,         \* what the request asks for
    loaded,      \* the employee row as the request's SELECT returned it
    found,       \* the embedding row id its SELECT returned, or None
    answer,      \* HTTP status sent, 0 before that
    contested,   \* history: sessions that two requests used at the same time
    revokers,    \* history: deactivations of the employee since last active
    overtaken,   \* history: enrolments under way when the employee was deactivated
    wrote,       \* history: requests whose commit on the employee or the face was applied
    removed      \* history: requests that deleted the employee's row as last written

tables == <<active, deletedAt, embedding, session, audit>>
history == <<contested, revokers, overtaken, wrote, removed>>
vars == <<tables, due, pc, job, loaded, found, answer, history>>

EmployeeOps == {"delete", "restore", "enroll", "issue"}
TokenOps == {"status", "complete"}
Ops == EmployeeOps \cup TokenOps

NoJob == [op |-> "none", emp |-> None, tok |-> None]
Jobs == [op : EmployeeOps, emp : Employees, tok : {None}]
          \cup [op : TokenOps, emp : Employees, tok : Requests] \cup {NoJob}

Rows == [row : Requests, by : Requests]
Places == {"idle", "delete.write", "delete.find", "delete.remove", "restore.write",
           "upload", "upsert", "issue.write", "expire", "check", "recheck",
           "finish", "audit", "done"}

Init ==
    /\ active = [e \in Employees |-> TRUE]
    /\ deletedAt = [e \in Employees |-> FALSE]
    /\ embedding = [e \in Employees |-> None]
    /\ session = [s \in Requests |-> "absent"]
    /\ due = [s \in Requests |-> FALSE]
    /\ audit = {}
    /\ pc = [r \in Requests |-> "idle"]
    /\ job = [r \in Requests |-> NoJob]
    /\ loaded = [r \in Requests |-> [active |-> TRUE, deleted |-> FALSE]]
    /\ found = [r \in Requests |-> None]
    /\ answer = [r \in Requests |-> 0]
    /\ contested = {}
    /\ revokers = [e \in Employees |-> {}]
    /\ overtaken = [e \in Employees |-> {}]
    /\ wrote = {}
    /\ removed = {}

-----------------------------------------------------------------------------
\* Moves within a handler.

InFlight == {r \in Requests : pc[r] \notin {"idle", "done"}}

Goto(r, place) == /\ pc' = [pc EXCEPT ![r] = place]
                  /\ UNCHANGED answer

Reply(r, code) == /\ pc' = [pc EXCEPT ![r] = "done"]
                  /\ answer' = [answer EXCEPT ![r] = code]

\* A commit was applied: the handler goes on, or the acknowledgement is lost
\* with the connection and the handler ends in a 500 all the same.
Committed(r, place) == Goto(r, place) \/ Reply(r, 500)

Emp(r) == job[r].emp
Tok(r) == job[r].tok

Arrive(r, op, e, s) ==
    /\ pc[r] = "idle"
    /\ Cardinality(InFlight) < MaxInFlight
    /\ job' = [job EXCEPT ![r] = [op |-> op, emp |-> e, tok |-> s]]
    /\ contested' = contested \cup {t \in {s} \ {None} : \E q \in InFlight : Tok(q) = t}
    /\ UNCHANGED <<revokers, overtaken, wrote, removed>>

\* SELECT of the employee row into the request's ORM session.
LoadEmployee(r, e) ==
    loaded' = [loaded EXCEPT ![r] = [active |-> active[e], deleted |-> deletedAt[e]]]

RowOf(e) == IF embedding[e] = None THEN None ELSE embedding[e].row

-----------------------------------------------------------------------------
\* delete_employee: soft delete, then delete_face_embedding, then audit.
DeleteLoad(r, e) ==
    /\ Arrive(r, "delete", e, None)
    /\ LoadEmployee(r, e)
    /\ Goto(r, "delete.write")
    /\ UNCHANGED <<tables, due, found>>

\* Enrolments of e that have found the employee active and not stored yet.
Enrolments(e) == {q \in Requests : pc[q] \in {"upload", "upsert"} /\ Emp(q) = e}

DeleteWrite(r) ==
    /\ pc[r] = "delete.write"
    /\ active' = IF loaded[r].active THEN [active EXCEPT ![Emp(r)] = FALSE] ELSE active
    /\ deletedAt' = [deletedAt EXCEPT ![Emp(r)] = TRUE]
    /\ revokers' = [revokers EXCEPT ![Emp(r)] = IF active'[Emp(r)] THEN {} ELSE @ \cup {r}]
    /\ overtaken' = IF active[Emp(r)] /\ ~active'[Emp(r)]
                    THEN [overtaken EXCEPT ![Emp(r)] = Enrolments(Emp(r))] ELSE overtaken
    /\ wrote' = wrote \cup {r}
    /\ Committed(r, "delete.find")
    /\ UNCHANGED <<embedding, session, audit, due, job, loaded, found, contested, removed>>

\* Mutant: the handler relies on the soft delete alone.
DeleteFindSkipped(r) ==
    /\ pc[r] = "delete.find"
    /\ Goto(r, "audit")
    /\ UNCHANGED <<tables, due, job, loaded, found, history>>

DeleteFind(r) ==
    /\ pc[r] = "delete.find"
    /\ found' = [found EXCEPT ![r] = RowOf(Emp(r))]
    /\ Goto(r, IF RowOf(Emp(r)) = None THEN "audit" ELSE "delete.remove")
    /\ UNCHANGED <<tables, due, job, loaded, history>>

DeleteRemove(r) ==
    /\ pc[r] = "delete.remove"
    /\ IF RowOf(Emp(r)) = found[r]
       THEN /\ embedding' = [embedding EXCEPT ![Emp(r)] = None]
            /\ removed' = removed \cup {r}
       ELSE UNCHANGED <<embedding, removed>>
    /\ Committed(r, "audit")
    /\ UNCHANGED <<active, deletedAt, session, audit, due, job, loaded, found,
                   contested, revokers, overtaken, wrote>>

-----------------------------------------------------------------------------
\* restore_employee: the row only, never the embedding.

RestoreLoad(r, e) ==
    /\ Arrive(r, "restore", e, None)
    /\ LoadEmployee(r, e)
    /\ Goto(r, "restore.write")
    /\ UNCHANGED <<tables, due, found>>

RestoreWrite(r) ==
    /\ pc[r] = "restore.write"
    /\ active' = IF loaded[r].active THEN active ELSE [active EXCEPT ![Emp(r)] = TRUE]
    /\ deletedAt' = IF loaded[r].deleted THEN [deletedAt EXCEPT ![Emp(r)] = FALSE]
                    ELSE deletedAt
    /\ revokers' = [revokers EXCEPT ![Emp(r)] = IF active'[Emp(r)] THEN {} ELSE @]
    /\ wrote' = wrote \cup {r}
    /\ Committed(r, "audit")
    /\ UNCHANGED <<embedding, session, audit, due, job, loaded, found,
                   contested, overtaken, removed>>

-----------------------------------------------------------------------------
\* enroll_employee_face and enroll_employee_face_samples, and the part of
\* complete_enrollment_session they share with it.

EnrollLoad(r, e) ==
    /\ Arrive(r, "enroll", e, None)
    /\ IF active[e] THEN Goto(r, "upload") ELSE Reply(r, 404)
    /\ UNCHANGED <<tables, due, loaded, found>>

\* The awaited uploads are read and embedded, then upsert_face_embedding looks
\* for the employee's row.
Upload(r) ==
    /\ pc[r] = "upload"
    /\ found' = [found EXCEPT ![r] = RowOf(Emp(r))]
    /\ Goto(r, "upsert")
    /\ UNCHANGED <<tables, due, job, loaded, history>>

\* Mutant: bad samples get the framework's own code, which no caller expects.
UploadUnprocessable(r) ==
    /\ pc[r] = "upload"
    /\ \E code \in {422, 503} : Reply(r, code)
    /\ UNCHANGED <<tables, due, job, loaded, found, history>>

\* Empty image, no face, wrong number of samples (400); no model (503).
UploadRefused(r) ==
    /\ pc[r] = "upload"
    /\ \E code \in {400, 503} : Reply(r, code)
    /\ UNCHANGED <<tables, due, job, loaded, found, history>>

\* Mutant: a commit that did not find its row any more is taken for done.
UpsertWriteSwallows(r) ==
    /\ pc[r] = "upsert"
    /\ IF RowOf(Emp(r)) = found[r]
       THEN /\ embedding' = [embedding EXCEPT ![Emp(r)] =
                    [row |-> IF found[r] = None THEN r ELSE found[r], by |-> r]]
            /\ wrote' = wrote \cup {r}
            /\ removed' = {d \in removed : Emp(d) # Emp(r)}
       ELSE UNCHANGED <<embedding, wrote, removed>>
    /\ Goto(r, IF job[r].op = "complete" THEN "recheck" ELSE "audit")
    /\ UNCHANGED <<active, deletedAt, session, audit, due, job, loaded, found,
                   contested, revokers, overtaken>>

\* INSERT if the SELECT found no row, UPDATE of the row it found otherwise:
\* each needs the table to be still as the SELECT saw it, else 500.
UpsertWrite(r) ==
    /\ pc[r] = "upsert"
    /\ IF RowOf(Emp(r)) = found[r]
       THEN /\ embedding' = [embedding EXCEPT ![Emp(r)] =
                    [row |-> IF found[r] = None THEN r ELSE found[r], by |-> r]]
            /\ wrote' = wrote \cup {r}
            /\ removed' = {d \in removed : Emp(d) # Emp(r)}
            /\ Committed(r, IF job[r].op = "complete" THEN "recheck" ELSE "audit")
       ELSE Reply(r, 500) /\ UNCHANGED <<embedding, wrote, removed>>
    /\ UNCHANGED <<active, deletedAt, session, audit, due, job, loaded, found,
                   contested, revokers, overtaken>>

\* Mutant: an open breaker is not reported to the handler.
UpsertRejectedSilently(r) ==
    /\ pc[r] = "upsert"
    /\ Goto(r, IF job[r].op = "complete" THEN "recheck" ELSE "audit")
    /\ UNCHANGED <<tables, due, job, loaded, found, history>>

\* DB_CIRCUIT_BREAKER turns the commit away: RuntimeError, 503.
UpsertRejected(r) ==
    /\ pc[r] = "upsert"
    /\ Reply(r, 503)
    /\ UNCHANGED <<tables, due, job, loaded, found, history>>

-----------------------------------------------------------------------------
\* Enrollment sessions.

\* create_enrollment_session
IssueLoad(r, e) ==
    /\ Arrive(r, "issue", e, None)
    /\ IF active[e] THEN Goto(r, "issue.write") ELSE Reply(r, 404)
    /\ UNCHANGED <<tables, due, loaded, found>>

IssueWrite(r) ==
    /\ pc[r] = "issue.write"
    /\ session' = [session EXCEPT ![r] = "pending"]
    /\ Committed(r, "audit")
    /\ UNCHANGED <<active, deletedAt, embedding, audit, due, job, loaded, found, history>>

\* The token of s is known to clients once its issue was answered.
Known(s) == job[s].op = "issue" /\ answer[s] = 200

\* get_enrollment_session
StatusLoad(r, s) ==
    /\ Known(s)
    /\ Arrive(r, "status", job[s].emp, s)
    /\ IF session[s] = "pending" /\ due[s] THEN Goto(r, "expire") ELSE Reply(r, 200)
    /\ UNCHANGED <<tables, due, loaded, found>>

\* Mutant: the token is looked up, its status is left to complete_session.
CompleteLoadUnchecked(r, s) ==
    /\ Known(s)
    /\ Arrive(r, "complete", job[s].emp, s)
    /\ Goto(r, IF session[s] = "pending" /\ due[s] THEN "expire" ELSE "check")
    /\ UNCHANGED <<tables, due, loaded, found>>

\* complete_enrollment_session: get_session and the pending test.
CompleteLoad(r, s) ==
    /\ Known(s)
    /\ Arrive(r, "complete", job[s].emp, s)
    /\ IF session[s] # "pending" THEN Reply(r, 410)
       ELSE Goto(r, IF due[s] THEN "expire" ELSE "check")
    /\ UNCHANGED <<tables, due, loaded, found>>

\* Mutant: reading the status of an overdue session expires it, then answers
\* with the row as it was loaded, which sends a completion on.
ExpireWriteStale(r) ==
    /\ pc[r] = "expire"
    /\ session' = [session EXCEPT ![Tok(r)] = "expired"]
    /\ IF job[r].op = "status" THEN Reply(r, 200) ELSE Goto(r, "finish")
    /\ UNCHANGED <<active, deletedAt, embedding, audit, due, job, loaded, found, history>>

\* get_session marks a session it read as pending and overdue; the UPDATE does
\* not test the status again.
ExpireWrite(r) ==
    /\ pc[r] = "expire"
    /\ session' = [session EXCEPT ![Tok(r)] = "expired"]
    /\ Reply(r, IF job[r].op = "status" THEN 200 ELSE 410) \/ Reply(r, 500)
    /\ UNCHANGED <<active, deletedAt, embedding, audit, due, job, loaded, found, history>>

\* Mutant: the session is spent before the samples are read.
CompleteCheckSpends(r) ==
    /\ pc[r] = "check"
    /\ session' = [session EXCEPT ![Tok(r)] = "completed"]
    /\ IF active[Emp(r)] THEN Goto(r, "upload") ELSE Reply(r, 410)
    /\ UNCHANGED <<active, deletedAt, embedding, audit, due, job, loaded, found, history>>

CompleteCheck(r) ==
    /\ pc[r] = "check"
    /\ IF active[Emp(r)] THEN Goto(r, "upload") ELSE Reply(r, 410)
    /\ UNCHANGED <<tables, due, job, loaded, found, history>>

\* complete_session reads record.status: the commit of the embedding expired
\* the ORM instance, so this is a fresh SELECT.
CompleteRecheck(r) ==
    /\ pc[r] = "recheck"
    /\ IF session[Tok(r)] = "pending" THEN Goto(r, "finish") ELSE Reply(r, 410)
    /\ UNCHANGED <<tables, due, job, loaded, found, history>>

CompleteWrite(r) ==
    /\ pc[r] = "finish"
    /\ session' = [session EXCEPT ![Tok(r)] = "completed"]
    /\ Committed(r, "audit")
    /\ UNCHANGED <<active, deletedAt, embedding, audit, due, job, loaded, found, history>>

-----------------------------------------------------------------------------
\* _record_audit: its own commit, after the one it reports; a failure is
\* raised and turns the answer into a 500.
AuditWrite(r) ==
    /\ pc[r] = "audit"
    /\ audit' = audit \cup {r}
    /\ Reply(r, 200) \/ Reply(r, 500)
    /\ UNCHANGED <<active, deletedAt, embedding, session, due, job, loaded, found, history>>

\* Anything a handler does not map to an answer of its own: a failed SELECT, a
\* commit that was not applied, an open breaker in delete_face_embedding, the
\* death of the pod.
Fail(r) ==
    /\ r \in InFlight
    /\ Reply(r, 500)
    /\ UNCHANGED <<tables, due, job, loaded, found, history>>

\* The clock passes expires_at.
Elapse(s) ==
    /\ session[s] # "absent"
    /\ ~due[s]
    /\ due' = [due EXCEPT ![s] = TRUE]
    /\ UNCHANGED <<tables, pc, job, loaded, found, answer, history>>

Begin(r) ==
    \/ \E e \in Employees :
        DeleteLoad(r, e) \/ RestoreLoad(r, e) \/ EnrollLoad(r, e) \/ IssueLoad(r, e)
    \/ \E s \in Requests : StatusLoad(r, s) \/ CompleteLoad(r, s)

Continue(r) ==
    \/ DeleteWrite(r)
    \/ DeleteFind(r)
    \/ DeleteRemove(r)
    \/ RestoreWrite(r)
    \/ Upload(r)
    \/ UploadRefused(r)
    \/ UpsertWrite(r)
    \/ UpsertRejected(r)
    \/ IssueWrite(r)
    \/ ExpireWrite(r)
    \/ CompleteCheck(r)
    \/ CompleteRecheck(r)
    \/ CompleteWrite(r)
    \/ AuditWrite(r)
    \/ Fail(r)

Next == \E r \in Requests : Begin(r) \/ Continue(r) \/ Elapse(r)

Spec == Init /\ [][Next]_vars
-----------------------------------------------------------------------------
TypeOK ==
    /\ active \in [Employees -> BOOLEAN]
    /\ deletedAt \in [Employees -> BOOLEAN]
    /\ embedding \in [Employees -> Rows \cup {None}]
    /\ session \in [Requests -> {"absent", "pending", "completed", "expired"}]
    /\ due \in [Requests -> BOOLEAN]
    /\ audit \subseteq Requests
    /\ pc \in [Requests -> Places]
    /\ job \in [Requests -> Jobs]
    /\ loaded \in [Requests -> [active : BOOLEAN, deleted : BOOLEAN]]
    /\ found \in [Requests -> Requests \cup {None}]
    /\ answer \in [Requests -> {0, 200, 400, 404, 410, 500, 503}]
    /\ contested \subseteq Requests
    /\ revokers \in [Employees -> SUBSET Requests]
    /\ overtaken \in [Employees -> SUBSET Requests]
    /\ wrote \subseteq Requests
    /\ removed \subseteq Requests

Enrolling(r) == job[r].op \in {"enroll", "complete"}

\* Whatever overlaps or fails in between, a session is marked completed only
\* after a face was stored on its behalf: the embedding commit comes first and
\* complete_session is reached only through it.
CompletedHasEnrolled ==
    \A s \in Requests : session[s] = "completed" =>
        \E r \in wrote : job[r].op = "complete" /\ Tok(r) = s

\* The employee has no face, or that of an enrolment which was past its employee
\* check when the employee was deactivated.
Cleared(e) == embedding[e] = None \/ embedding[e].by \in overtaken[e]

\* What an audit event is worth, whatever overlaps or fails: that of a deactivation,
\* a restoration or an enrolment follows the commit it reports, that of a completion
\* also its spent session, that of an issue the session row.  The
\* "embedding_revoked" of a deactivation (endpoints_admin.py:322) is true of the
\* table for as long as the employee stays deactivated, but for the enrolments it
\* overtook: these make it false, RevokedFaceStaysRevoked.
AuditIsTruthful ==
    \A r \in audit :
        /\ job[r].op # "issue" => r \in wrote
        /\ job[r].op = "complete" => session[Tok(r)] \in {"completed", "expired"}
        /\ job[r].op = "issue" => session[r] # "absent"
        /\ r \in revokers[Emp(r)] => Cleared(Emp(r))

\* A face whose enrolment was answered 200 is replaced by a later enrolment or
\* lost to a request that deactivates the employee after it, never to a failed
\* commit or to a race of two enrolments on the employee's row.
AcknowledgedFaceIsKept ==
    \A r \in Requests :
        Enrolling(r) /\ answer[r] = 200 /\ embedding[Emp(r)] = None =>
            \E d \in removed : Emp(d) = Emp(r)

\* Answering 200 to DELETE /employees/{code} says that the face embedding is
\* revoked (api-contract.yml:168, the audit metadata of line 322): while the
\* employee stays deactivated there is no row to match.
RevokedFaceStaysRevoked ==
    \A e \in Employees : \A d \in revokers[e] : answer[d] = 200 => embedding[e] = None

\* What a revocation is worth, whatever overlaps, fails or is repeated: the only
\* face ever found behind an answer of 200 is one of an enrolment that was past
\* its employee check when the employee was deactivated.
RevocationHolds ==
    \A e \in Employees : \A d \in revokers[e] : answer[d] = 200 => Cleared(e)

\* A completion refused with 410, the answer for a session that "can no longer
\* be used" (api-contract.yml:415), has stored no face.
RefusedCompletionStoresNothing ==
    \A r \in Requests : answer[r] = 410 => r \notin wrote

\* The same for every session that two requests never used at the same time,
\* whatever became of it in earlier, failed completions or by the clock, and
\* whatever else overlaps: a completion that is going to be refused is refused
\* before its face is stored.
RefusalHolds ==
    \A r \in wrote : answer[r] = 410 => Tok(r) \in contested

\* Every session is one-time (OneTimeSession) until two requests use it at the
\* same time: completed or expired it stays so and one completion at most is
\* confirmed, even when a completion dies halfway and the client tries again.
Confirmed(s) == {r \in Requests :
                    job[r].op = "complete" /\ Tok(r) = s /\ answer[r] = 200}

One(s) ==
    INSTANCE OneTimeSession WITH
        Completions <- Requests,
        status <- session[s],
        confirmed <- Confirmed(s)

OneTime ==
    /\ \A s \in Requests : One(s)!Init
    /\ [][\A s \in Requests : [One(s)!Next \/ s \in contested']_(One(s)!vars)
       ]_<<session, job, answer>>
=============================================================================
