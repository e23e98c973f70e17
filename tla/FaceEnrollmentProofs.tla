------------------------ MODULE FaceEnrollmentProofs ------------------------
(***************************************************************************)
(* The invariants of FaceEnrollment that hold for any number of requests,  *)
(* employees and requests in flight.  None of them is inductive alone: what*)
(* a request may still do depends on the step it is at, so IInv says for   *)
(* each step which of its commits are already behind it.                   *)
(***************************************************************************)
EXTENDS FaceEnrollment, TLAPS

\* A request that has not arrived has asked for nothing and changed nothing;
\* one that has arrived is at a step of its own handler.
Placed ==
    \A r \in Requests :
        /\ pc[r] = "idle" => /\ job[r] = NoJob
                             /\ answer[r] = 0
                             /\ r \notin wrote \cup removed \cup audit
        /\ pc[r] # "idle" => job[r].op \in Ops
        /\ pc[r] \in {"delete.write", "delete.find", "delete.remove"} => job[r].op = "delete"
        /\ pc[r] = "restore.write" => job[r].op = "restore"
        /\ pc[r] = "issue.write" => job[r].op = "issue"
        /\ pc[r] = "expire" => job[r].op \in TokenOps
        /\ pc[r] \in {"upload", "upsert"} => Enrolling(r)
        /\ pc[r] \in {"check", "recheck", "finish"} => job[r].op = "complete"
        /\ r \in audit => pc[r] = "done"

\* What is stored by the time a handler is past its commit, or an enrolment is
\* confirmed.
StoredFirst ==
    \A r \in Requests :
        /\ pc[r] \in {"delete.find", "delete.remove", "recheck", "finish"} => r \in wrote
        /\ pc[r] = "audit" /\ job[r].op # "issue" => r \in wrote
        /\ Enrolling(r) /\ answer[r] = 200 => r \in wrote

\* A session row exists from its commit on, and a completion that has reached
\* the audit has moved its session out of "pending".
SessionFirst ==
    \A r \in Requests :
        /\ session[r] # "absent" => job[r].op = "issue" /\ pc[r] # "issue.write"
        /\ job[r].op = "issue" /\ (pc[r] = "audit" \/ answer[r] = 200)
             => session[r] # "absent"
        /\ job[r].op \in TokenOps => session[Tok(r)] # "absent"
        /\ job[r].op = "complete" /\ pc[r] = "audit"
             => session[Tok(r)] \in {"completed", "expired"}

\* A stored face is missing only after a delete that found it.
StoredIsKept ==
    \A r \in wrote : Enrolling(r) /\ embedding[Emp(r)] = None => \E d \in removed : Emp(d) = Emp(r)

\* AuditIsTruthful, but for what a deactivation says of the face: that is part of
\* Revoking, further below.
AuditFollows ==
    \A r \in audit :
        /\ job[r].op # "issue" => r \in wrote
        /\ job[r].op = "complete" => session[Tok(r)] \in {"completed", "expired"}
        /\ job[r].op = "issue" => session[r] # "absent"

IInv == /\ TypeOK
        /\ Placed
        /\ StoredFirst
        /\ SessionFirst
        /\ StoredIsKept
        /\ CompletedHasEnrolled
        /\ AuditFollows

\* Nothing has arrived, nothing is stored.
LEMMA InitInv == Init => IInv
<1> SUFFICES ASSUME Init PROVE IInv
  OBVIOUS
<1>1. TypeOK
  BY DEF Init, TypeOK, Jobs, Places
<1>2. Placed /\ StoredFirst /\ SessionFirst /\ StoredIsKept
  BY DEF Init, Placed, StoredFirst, SessionFirst, StoredIsKept, NoJob, Enrolling, TokenOps
<1>3. CompletedHasEnrolled /\ AuditFollows
  BY DEF Init, CompletedHasEnrolled, AuditFollows
<1> QED
  BY <1>1, <1>2, <1>3 DEF IInv

\* Where a request goes and what it is answered.
Codes == {0, 200, 400, 404, 410, 500, 503}
Moved == pc' \in [Requests -> Places] /\ answer' \in [Requests -> Codes]

\* A move within a handler keeps the types of the places and answers.
LEMMA MoveType ==
  ASSUME TypeOK, NEW r \in Requests, NEW place \in Places, NEW code \in Codes,
         Goto(r, place) \/ Committed(r, place) \/ Reply(r, code)
  PROVE  Moved
<1>1. pc' = [pc EXCEPT ![r] = place] \/ pc' = [pc EXCEPT ![r] = "done"]
  BY DEF Goto, Committed, Reply
<1>2. answer' = answer \/ answer' = [answer EXCEPT ![r] = code]
        \/ answer' = [answer EXCEPT ![r] = 500]
  BY DEF Goto, Committed, Reply
<1>3. pc \in [Requests -> Places] /\ answer \in [Requests -> Codes]
  BY DEF TypeOK, Codes
<1>4. pc' \in [Requests -> Places]
  BY <1>1, <1>3 DEF Places
<1>5. answer' \in [Requests -> Codes]
  BY <1>2, <1>3 DEF Codes
<1> QED
  BY <1>4, <1>5 DEF Moved

\* What has arrived is a job for a registered employee; one on a token names it.
LEMMA JobType ==
  ASSUME TypeOK, Placed, NEW r \in Requests, pc[r] # "idle"
  PROVE  /\ Emp(r) \in Employees
         /\ RowOf(Emp(r)) \in Requests \cup {None}
         /\ job[r].op \in TokenOps => Tok(r) \in Requests
<1>1. job[r] \in Jobs /\ job[r].op \in Ops
  BY DEF TypeOK, Placed
<1>2. job[r] \in [op : EmployeeOps, emp : Employees, tok : {None}]
                   \cup [op : TokenOps, emp : Employees, tok : Requests]
  BY <1>1 DEF Jobs, NoJob, Ops, EmployeeOps, TokenOps
<1>3. Emp(r) \in Employees
  BY <1>2 DEF Emp
<1>4. job[r].op \in TokenOps => Tok(r) \in Requests
  BY <1>2 DEF Tok, EmployeeOps, TokenOps
<1>5. RowOf(Emp(r)) \in Requests \cup {None}
  BY <1>3 DEF TypeOK, RowOf, Rows
<1> QED
  BY <1>3, <1>4, <1>5

\* Every step of a handler keeps the types.
LEMMA TypeStep == TypeOK /\ Placed /\ [Next]_vars => TypeOK'
<1> SUFFICES ASSUME TypeOK, Placed, [Next]_vars PROVE TypeOK'
  OBVIOUS
<1>1. CASE UNCHANGED vars
  BY <1>1 DEF vars, TypeOK, tables, history
<1>2. ASSUME NEW r \in Requests, NEW e \in Employees,
             DeleteLoad(r, e) \/ RestoreLoad(r, e) \/ EnrollLoad(r, e) \/ IssueLoad(r, e)
      PROVE  TypeOK'
  <2>1. job' \in [Requests -> Jobs]
    <3>1. PICK op \in EmployeeOps : Arrive(r, op, e, None)
      BY <1>2 DEF DeleteLoad, RestoreLoad, EnrollLoad, IssueLoad, EmployeeOps
    <3>2. [op |-> op, emp |-> e, tok |-> None] \in Jobs
      BY DEF Jobs
    <3> QED
      BY <3>1, <3>2 DEF Arrive, TypeOK
  <2>2. Moved
    BY <1>2, MoveType DEF DeleteLoad, RestoreLoad, EnrollLoad, IssueLoad, Places, Codes
  <2>3. loaded' \in [Requests -> [active : BOOLEAN, deleted : BOOLEAN]]
    BY <1>2 DEF DeleteLoad, RestoreLoad, EnrollLoad, IssueLoad, LoadEmployee, TypeOK
  <2>4. contested' \subseteq Requests /\ UNCHANGED <<revokers, overtaken, wrote, removed>>
    BY <1>2 DEF DeleteLoad, RestoreLoad, EnrollLoad, IssueLoad, Arrive, TypeOK
  <2> QED
    BY <1>2, <2>1, <2>2, <2>3, <2>4
       DEF DeleteLoad, RestoreLoad, EnrollLoad, IssueLoad, Moved, Codes, TypeOK, tables
<1>3. ASSUME NEW r \in Requests, NEW s \in Requests, StatusLoad(r, s) \/ CompleteLoad(r, s)
      PROVE  TypeOK'
  <2>1. job[s].emp \in Employees
    <3>1. job[s] \in Jobs /\ job[s].op = "issue"
      BY <1>3 DEF StatusLoad, CompleteLoad, Known, TypeOK
    <3> QED
      BY <3>1 DEF Jobs, NoJob
  <2>2. job' \in [Requests -> Jobs]
    <3>1. PICK op \in TokenOps : Arrive(r, op, job[s].emp, s)
      BY <1>3 DEF StatusLoad, CompleteLoad, TokenOps
    <3>2. [op |-> op, emp |-> job[s].emp, tok |-> s] \in Jobs
      BY <2>1 DEF Jobs
    <3> QED
      BY <3>1, <3>2 DEF Arrive, TypeOK
  <2>3. Moved
    BY <1>3, MoveType DEF StatusLoad, CompleteLoad, Places, Codes
  <2>4. contested' \subseteq Requests /\ UNCHANGED <<revokers, overtaken, wrote, removed>>
    BY <1>3 DEF StatusLoad, CompleteLoad, Arrive, TypeOK
  <2> QED
    BY <1>3, <2>2, <2>3, <2>4 DEF StatusLoad, CompleteLoad, Moved, Codes, TypeOK, tables
<1>4. ASSUME NEW r \in Requests, Continue(r) PROVE TypeOK'
  <2>1. CASE DeleteWrite(r)
    <3>1. Moved
      BY <2>1, MoveType DEF DeleteWrite, Places, Codes
    <3>2. active' \in [Employees -> BOOLEAN] /\ deletedAt' \in [Employees -> BOOLEAN]
      BY <2>1 DEF DeleteWrite, TypeOK
    <3>3. revokers' \in [Employees -> SUBSET Requests]
      <4>1. PICK S : S \in SUBSET (revokers[Emp(r)] \cup {r})
                       /\ revokers' = [revokers EXCEPT ![Emp(r)] = S]
        BY <2>1 DEF DeleteWrite
      <4>2. revokers[Emp(r)] \in SUBSET Requests
        BY <2>1, JobType DEF DeleteWrite, TypeOK
      <4>3. S \in SUBSET Requests
        BY <4>1, <4>2
      <4> QED
        BY <4>1, <4>3 DEF TypeOK
    <3>4. overtaken' \in [Employees -> SUBSET Requests]
      BY <2>1 DEF DeleteWrite, Enrolments, TypeOK
    <3> QED
      BY <2>1, <3>1, <3>2, <3>3, <3>4 DEF DeleteWrite, Moved, Codes, TypeOK
  <2>2. CASE DeleteFind(r)
    <3>1. Moved
      BY <2>2, MoveType DEF DeleteFind, Places, Codes
    <3>2. found' \in [Requests -> Requests \cup {None}]
      BY <2>2, JobType DEF DeleteFind, TypeOK
    <3> QED
      BY <2>2, <3>1, <3>2 DEF DeleteFind, Moved, Codes, TypeOK, tables, history
  <2>3. CASE DeleteRemove(r)
    <3>1. Moved
      BY <2>3, MoveType DEF DeleteRemove, Places, Codes
    <3>2. embedding' \in [Employees -> Rows \cup {None}] /\ removed' \subseteq Requests
      BY <2>3 DEF DeleteRemove, TypeOK
    <3> QED
      BY <2>3, <3>1, <3>2 DEF DeleteRemove, Moved, Codes, TypeOK
  <2>4. CASE RestoreWrite(r)
    <3>1. Moved
      BY <2>4, MoveType DEF RestoreWrite, Places, Codes
    <3>2. active' \in [Employees -> BOOLEAN] /\ deletedAt' \in [Employees -> BOOLEAN]
      BY <2>4 DEF RestoreWrite, TypeOK
    <3>3. revokers' \in [Employees -> SUBSET Requests]
      BY <2>4 DEF RestoreWrite, TypeOK
    <3> QED
      BY <2>4, <3>1, <3>2, <3>3 DEF RestoreWrite, Moved, Codes, TypeOK
  <2>5. CASE Upload(r)
    <3>1. Moved
      BY <2>5, MoveType DEF Upload, Places, Codes
    <3>2. found' \in [Requests -> Requests \cup {None}]
      BY <2>5, JobType DEF Upload, TypeOK
    <3> QED
      BY <2>5, <3>1, <3>2 DEF Upload, Moved, Codes, TypeOK, tables, history
  <2>6. CASE UploadRefused(r) \/ UpsertRejected(r) \/ Fail(r)
    <3>1. Moved
      BY <2>6, MoveType DEF UploadRefused, UpsertRejected, Fail, Places, Codes
    <3> QED
      BY <2>6, <3>1 DEF UploadRefused, UpsertRejected, Fail, Moved, Codes, TypeOK, tables, history
  <2>7. CASE UpsertWrite(r)
    <3>1. Moved
      BY <2>7, MoveType DEF UpsertWrite, Places, Codes
    <3>2. embedding' \in [Employees -> Rows \cup {None}]
      <4>1. CASE RowOf(Emp(r)) = found[r]
        <5>1. [row |-> IF found[r] = None THEN r ELSE found[r], by |-> r] \in Rows
          BY DEF Rows, TypeOK
        <5> QED
          BY <2>7, <4>1, <5>1 DEF UpsertWrite, TypeOK
      <4>2. CASE RowOf(Emp(r)) # found[r]
        BY <2>7, <4>2 DEF UpsertWrite, TypeOK
      <4> QED
        BY <4>1, <4>2
    <3>3. wrote' \subseteq Requests /\ removed' \subseteq Requests
      BY <2>7 DEF UpsertWrite, TypeOK
    <3> QED
      BY <2>7, <3>1, <3>2, <3>3 DEF UpsertWrite, Moved, Codes, TypeOK
  <2>8. CASE IssueWrite(r) \/ ExpireWrite(r) \/ CompleteWrite(r)
    <3>1. Moved
      <4>1. \/ \E place \in {"audit"} : Committed(r, place)
            \/ \E code \in {200, 410, 500} : Reply(r, code)
        BY <2>8 DEF IssueWrite, ExpireWrite, CompleteWrite
      <4> QED
        BY <4>1, MoveType DEF Places, Codes
    <3>2. session' \in [Requests -> {"absent", "pending", "completed", "expired"}]
      <4>1. PICK s \in Requests, st \in {"pending", "completed", "expired"} :
                    session' = [session EXCEPT ![s] = st]
        BY <2>8, JobType DEF Placed, TokenOps, IssueWrite, ExpireWrite, CompleteWrite
      <4> QED
        BY <4>1 DEF TypeOK
    <3> QED
      BY <2>8, <3>1, <3>2
         DEF IssueWrite, ExpireWrite, CompleteWrite, Moved, Codes, TypeOK, history
  <2>9. CASE CompleteCheck(r) \/ CompleteRecheck(r)
    <3>1. Moved
      BY <2>9, MoveType DEF CompleteCheck, CompleteRecheck, Places, Codes
    <3> QED
      BY <2>9, <3>1 DEF CompleteCheck, CompleteRecheck, Moved, Codes, TypeOK, tables, history
  <2>10. CASE AuditWrite(r)
    <3>1. Moved
      BY <2>10, MoveType DEF AuditWrite, Places, Codes
    <3> QED
      BY <2>10, <3>1 DEF AuditWrite, Moved, Codes, TypeOK, history
  <2> QED
    BY <1>4, <2>1, <2>2, <2>3, <2>4, <2>5, <2>6, <2>7, <2>8, <2>9, <2>10 DEF Continue
<1>5. ASSUME NEW s \in Requests, Elapse(s) PROVE TypeOK'
  BY <1>5 DEF Elapse, TypeOK, tables, history
<1> QED
  BY <1>1, <1>2, <1>3, <1>4, <1>5 DEF Next, Begin

\* A request changes nobody's place, answer and job but its own.
LEMMA OwnSteps ==
  ASSUME TypeOK, NEW r \in Requests, Begin(r) \/ Continue(r)
  PROVE  /\ pc[r] # "done"
         /\ \A q \in Requests \ {r} :
              pc'[q] = pc[q] /\ answer'[q] = answer[q] /\ job'[q] = job[q]
<1>1. CASE Begin(r)
  BY <1>1 DEF Begin, DeleteLoad, RestoreLoad, EnrollLoad, IssueLoad, StatusLoad,
              CompleteLoad, Arrive, Goto, Reply, TypeOK
<1>2. CASE Continue(r)
  BY <1>2 DEF Continue, DeleteWrite, DeleteFind, DeleteRemove, RestoreWrite, Upload,
              UploadRefused, UpsertWrite, UpsertRejected, IssueWrite, ExpireWrite,
              CompleteCheck, CompleteRecheck, CompleteWrite, AuditWrite, Fail,
              InFlight, Committed, Goto, Reply, TypeOK
<1> QED
  BY <1>1, <1>2

\* Once it has arrived a request keeps its job, and only Begin gives it one.
LEMMA KeepsJob ==
  ASSUME NEW r \in Requests, Continue(r)
  PROVE  UNCHANGED job /\ pc[r] # "idle"
  BY DEF Continue, DeleteWrite, DeleteFind, DeleteRemove, RestoreWrite, Upload,
         UploadRefused, UpsertWrite, UpsertRejected, IssueWrite, ExpireWrite,
         CompleteCheck, CompleteRecheck, CompleteWrite, AuditWrite, Fail, InFlight

\* A request stands only where its operation can take it.
LEMMA PlacedStep == IInv /\ [Next]_vars => Placed'
<1> SUFFICES ASSUME IInv, [Next]_vars PROVE Placed'
  OBVIOUS
<1> USE DEF Placed, Enrolling
<1>1. CASE UNCHANGED vars
  BY <1>1 DEF IInv, vars, tables, history
<1>2. ASSUME NEW s \in Requests, Elapse(s) PROVE Placed'
  BY <1>2 DEF IInv, Elapse, tables, history
<1>3. ASSUME NEW r \in Requests, Begin(r) PROVE Placed'
  <2>1. UNCHANGED <<wrote, removed, audit>>
    BY <1>3 DEF Begin, DeleteLoad, RestoreLoad, EnrollLoad, IssueLoad, StatusLoad,
                CompleteLoad, Arrive, tables
  <2>2. /\ pc'[r] # "idle" /\ job'[r].op \in Ops
        /\ pc'[r] \notin {"delete.find", "delete.remove", "upsert", "recheck", "finish"}
        /\ pc'[r] = "delete.write" => job'[r].op = "delete"
        /\ pc'[r] = "restore.write" => job'[r].op = "restore"
        /\ pc'[r] = "issue.write" => job'[r].op = "issue"
        /\ pc'[r] = "expire" => job'[r].op \in TokenOps
        /\ pc'[r] = "upload" => job'[r].op = "enroll"
        /\ pc'[r] = "check" => job'[r].op = "complete"
    BY <1>3 DEF Begin, DeleteLoad, RestoreLoad, EnrollLoad, IssueLoad, StatusLoad,
                CompleteLoad, Arrive, Goto, Reply, IInv, TypeOK, Ops, EmployeeOps, TokenOps
  <2> QED
    BY <1>3, <2>1, <2>2, OwnSteps DEF IInv
<1>4. ASSUME NEW r \in Requests, Continue(r) PROVE Placed'
  <2>1. UNCHANGED job /\ pc[r] # "idle"
    BY <1>4, KeepsJob
  <2>2. \A q \in Requests \ {r} : (q \in wrote' => q \in wrote)
            /\ (q \in removed' => q \in removed) /\ (q \in audit' => q \in audit)
    BY <1>4 DEF Continue, DeleteWrite, DeleteFind, DeleteRemove, RestoreWrite, Upload,
                UploadRefused, UpsertWrite, UpsertRejected, IssueWrite, ExpireWrite,
                CompleteCheck, CompleteRecheck, CompleteWrite, AuditWrite, Fail, tables, history
  <2>3. /\ pc'[r] # "idle"
        /\ pc'[r] \in {"delete.write", "delete.find", "delete.remove"} => job[r].op = "delete"
        /\ pc'[r] # "restore.write"
        /\ pc'[r] # "issue.write"
        /\ pc'[r] # "expire"
        /\ pc'[r] \in {"upload", "upsert"} => Enrolling(r)
        /\ pc'[r] \in {"check", "recheck", "finish"} => job[r].op = "complete"
    BY <1>4 DEF Continue, DeleteWrite, DeleteFind, DeleteRemove, RestoreWrite, Upload,
                UploadRefused, UpsertWrite, UpsertRejected, IssueWrite, ExpireWrite,
                CompleteCheck, CompleteRecheck, CompleteWrite, AuditWrite, Fail,
                Committed, Goto, Reply, IInv, TypeOK
  <2>4. r \notin audit
    BY <1>4, OwnSteps DEF IInv
  <2>5. r \in audit' => pc'[r] = "done"
    BY <1>4, <2>4 DEF Continue, DeleteWrite, DeleteFind, DeleteRemove, RestoreWrite, Upload,
                UploadRefused, UpsertWrite, UpsertRejected, IssueWrite, ExpireWrite,
                CompleteCheck, CompleteRecheck, CompleteWrite, AuditWrite, Fail,
                Reply, IInv, TypeOK, tables
  <2> QED
    BY <1>4, <2>1, <2>2, <2>3, <2>5, OwnSteps DEF IInv
<1> QED
  BY <1>1, <1>2, <1>3, <1>4 DEF Next

\* An enrolment is past its upsert only with its face written.
LEMMA StoredFirstStep == IInv /\ [Next]_vars => StoredFirst'
<1> SUFFICES ASSUME IInv, [Next]_vars PROVE StoredFirst'
  OBVIOUS
<1> USE DEF StoredFirst, Enrolling
<1>1. CASE UNCHANGED vars
  BY <1>1 DEF IInv, vars, tables, history
<1>2. ASSUME NEW s \in Requests, Elapse(s) PROVE StoredFirst'
  BY <1>2 DEF IInv, Elapse, tables, history
<1>3. ASSUME NEW r \in Requests, Begin(r) PROVE StoredFirst'
  <2>1. UNCHANGED wrote
    BY <1>3 DEF Begin, DeleteLoad, RestoreLoad, EnrollLoad, IssueLoad, StatusLoad,
                CompleteLoad, Arrive
  <2>2. /\ pc'[r] \notin {"delete.find", "delete.remove", "recheck", "finish", "audit"}
        /\ answer'[r] = 200 => job'[r].op = "status"
    BY <1>3 DEF Begin, DeleteLoad, RestoreLoad, EnrollLoad, IssueLoad, StatusLoad,
                CompleteLoad, Arrive, Goto, Reply, IInv, TypeOK, Placed
  <2> QED
    BY <1>3, <2>1, <2>2, OwnSteps DEF IInv
<1>4. ASSUME NEW r \in Requests, Continue(r) PROVE StoredFirst'
  <2>1. UNCHANGED job /\ wrote \subseteq wrote'
    BY <1>4, KeepsJob DEF Continue, DeleteWrite, DeleteFind, DeleteRemove, RestoreWrite,
          Upload, UploadRefused, UpsertWrite, UpsertRejected, IssueWrite, ExpireWrite,
          CompleteCheck, CompleteRecheck, CompleteWrite, AuditWrite, Fail, history
  <2>2. /\ pc'[r] \in {"delete.find", "delete.remove", "recheck", "finish"} => r \in wrote'
        /\ pc'[r] = "audit" /\ job[r].op # "issue" => r \in wrote'
        /\ Enrolling(r) /\ answer'[r] = 200 => r \in wrote'
    BY <1>4 DEF Continue, DeleteWrite, DeleteFind, DeleteRemove, RestoreWrite, Upload,
                UploadRefused, UpsertWrite, UpsertRejected, IssueWrite, ExpireWrite,
                CompleteCheck, CompleteRecheck, CompleteWrite, AuditWrite, Fail,
                Committed, Goto, Reply, IInv, TypeOK, Placed, history
  <2> QED
    BY <1>4, <2>1, <2>2, OwnSteps DEF IInv
<1> QED
  BY <1>1, <1>2, <1>3, <1>4 DEF Next

\* What one step of a request can do to the sessions: the first commit of an
\* issue inserts its own, a completion or an expiry closes the token's.
LEMMA SessionMoves ==
  ASSUME IInv, NEW r \in Requests, Continue(r)
  PROVE  \/ UNCHANGED session /\ pc[r] \notin {"issue.write", "expire", "finish"}
         \/ UNCHANGED session /\ answer'[r] = 500 /\ pc'[r] = "done"
         \/ /\ pc[r] = "issue.write"
            /\ session' = [session EXCEPT ![r] = "pending"]
         \/ /\ pc[r] = "expire"
            /\ session' = [session EXCEPT ![Tok(r)] = "expired"]
            /\ pc'[r] = "done"
         \/ /\ pc[r] = "finish"
            /\ session' = [session EXCEPT ![Tok(r)] = "completed"]
  BY DEF Continue, DeleteWrite, DeleteFind, DeleteRemove, RestoreWrite, Upload,
         UploadRefused, UpsertWrite, UpsertRejected, IssueWrite, ExpireWrite,
         CompleteCheck, CompleteRecheck, CompleteWrite, AuditWrite, Fail,
         Committed, Goto, Reply, IInv, TypeOK, tables

\* What an issue or a completion reports is in the sessions table by then.
LEMMA SessionFirstStep == IInv /\ [Next]_vars => SessionFirst'
<1> SUFFICES ASSUME IInv, [Next]_vars PROVE SessionFirst'
  OBVIOUS
<1> USE DEF SessionFirst, Tok
<1>1. CASE UNCHANGED vars
  BY <1>1 DEF IInv, vars, tables, history
<1>2. ASSUME NEW s \in Requests, Elapse(s) PROVE SessionFirst'
  BY <1>2 DEF IInv, Elapse, tables, history
<1>3. ASSUME NEW r \in Requests, Begin(r) PROVE SessionFirst'
  <2>1. UNCHANGED session
    BY <1>3 DEF Begin, DeleteLoad, RestoreLoad, EnrollLoad, IssueLoad, StatusLoad,
                CompleteLoad, tables
  <2>2. session[r] = "absent"
    BY <1>3 DEF IInv, Placed, NoJob, Begin, DeleteLoad, RestoreLoad, EnrollLoad, IssueLoad,
                StatusLoad, CompleteLoad, Arrive
  <2>3. /\ pc'[r] # "audit"
        /\ answer'[r] = 200 => job'[r].op = "status"
        /\ job'[r].op \in TokenOps => session[job'[r].tok] # "absent"
    BY <1>3 DEF Begin, DeleteLoad, RestoreLoad, EnrollLoad, IssueLoad, StatusLoad,
                CompleteLoad, Known, Arrive, Goto, Reply, IInv, TypeOK, Placed, TokenOps
  <2> QED
    BY <1>3, <2>1, <2>2, <2>3, OwnSteps DEF IInv
<1>4. ASSUME NEW r \in Requests, Continue(r) PROVE SessionFirst'
  <2>1. UNCHANGED job /\ pc[r] # "idle"
    BY <1>4, KeepsJob
  <2>2. job[r].op \in TokenOps => Tok(r) \in Requests
    BY <2>1, JobType DEF IInv
  <2>3. job[r].op \in {"issue", "complete"} /\ pc'[r] = "audit" =>
          pc[r] \in {"issue.write", "finish"}
    BY <1>4 DEF Continue, DeleteWrite, DeleteFind, DeleteRemove, RestoreWrite, Upload,
                UploadRefused, UpsertWrite, UpsertRejected, IssueWrite, ExpireWrite,
                CompleteCheck, CompleteRecheck, CompleteWrite, AuditWrite, Fail,
                Committed, Goto, Reply, IInv, TypeOK, Placed, Enrolling
  <2>4. job[r].op = "issue" /\ answer'[r] = 200 => answer[r] = 200 \/ pc[r] = "audit"
    BY <1>4 DEF Continue, DeleteWrite, DeleteFind, DeleteRemove, RestoreWrite, Upload,
                UploadRefused, UpsertWrite, UpsertRejected, IssueWrite, ExpireWrite,
                CompleteCheck, CompleteRecheck, CompleteWrite, AuditWrite, Fail,
                Committed, Goto, Reply, IInv, TypeOK, Placed, TokenOps
  <2>5. pc'[r] # "issue.write"
    BY <1>4 DEF Continue, DeleteWrite, DeleteFind, DeleteRemove, RestoreWrite, Upload,
                UploadRefused, UpsertWrite, UpsertRejected, IssueWrite, ExpireWrite,
                CompleteCheck, CompleteRecheck, CompleteWrite, AuditWrite, Fail,
                Committed, Goto, Reply, IInv, TypeOK
  <2>6. CASE UNCHANGED session /\ (pc[r] \notin {"issue.write", "finish"} \/ pc'[r] = "done")
    BY <1>4, <2>1, <2>3, <2>4, <2>5, <2>6, OwnSteps DEF IInv, Placed, TokenOps
  <2>7. CASE pc[r] = "issue.write" /\ session' = [session EXCEPT ![r] = "pending"]
    BY <1>4, <2>1, <2>3, <2>4, <2>5, <2>7, OwnSteps DEF IInv, Placed, TokenOps, TypeOK
  <2>8. CASE /\ pc[r] = "expire"
             /\ session' = [session EXCEPT ![Tok(r)] = "expired"]
             /\ pc'[r] = "done"
    BY <1>4, <2>1, <2>2, <2>4, <2>5, <2>8, OwnSteps DEF IInv, Placed, TokenOps, TypeOK
  <2>9. CASE pc[r] = "finish" /\ session' = [session EXCEPT ![Tok(r)] = "completed"]
    BY <1>4, <2>1, <2>2, <2>4, <2>5, <2>9, OwnSteps DEF IInv, Placed, TokenOps, TypeOK
  <2> QED
    BY <1>4, <2>6, <2>7, <2>8, <2>9, SessionMoves
<1> QED
  BY <1>1, <1>2, <1>3, <1>4 DEF Next

\* Only complete_session marks a session completed, after the upsert.
LEMMA CompletedStep == IInv /\ [Next]_vars => CompletedHasEnrolled'
<1> SUFFICES ASSUME IInv, [Next]_vars PROVE CompletedHasEnrolled'
  OBVIOUS
<1> USE DEF CompletedHasEnrolled, Tok
<1>1. CASE UNCHANGED vars
  BY <1>1 DEF IInv, vars, tables, history
<1>2. ASSUME NEW s \in Requests, Elapse(s) PROVE CompletedHasEnrolled'
  BY <1>2 DEF IInv, Elapse, tables, history
<1>3. ASSUME NEW r \in Requests, Begin(r) PROVE CompletedHasEnrolled'
  <2>1. UNCHANGED <<session, wrote>> /\ r \notin wrote
    BY <1>3 DEF Begin, DeleteLoad, RestoreLoad, EnrollLoad, IssueLoad, StatusLoad,
                CompleteLoad, Arrive, tables, IInv, Placed
  <2> QED
    BY <1>3, <2>1, OwnSteps DEF IInv, TypeOK
<1>4. ASSUME NEW r \in Requests, Continue(r) PROVE CompletedHasEnrolled'
  <2>1. UNCHANGED job /\ wrote \subseteq wrote'
    BY <1>4, KeepsJob DEF Continue, DeleteWrite, DeleteFind, DeleteRemove, RestoreWrite,
          Upload, UploadRefused, UpsertWrite, UpsertRejected, IssueWrite, ExpireWrite,
          CompleteCheck, CompleteRecheck, CompleteWrite, AuditWrite, Fail, history
  <2>2. pc[r] = "finish" => r \in wrote /\ job[r].op = "complete"
    BY DEF IInv, Placed, StoredFirst, Enrolling
  <2>3. ASSUME NEW s \in Requests, session'[s] = "completed", session[s] # "completed"
        PROVE  pc[r] = "finish" /\ s = Tok(r)
    BY <1>4, <2>3, SessionMoves DEF IInv, TypeOK
  <2> QED
    BY <2>1, <2>2, <2>3 DEF IInv
<1> QED
  BY <1>1, <1>2, <1>3, <1>4 DEF Next

\* A face that was written goes away only with a removal recorded for its employee.
LEMMA StoredIsKeptStep == IInv /\ [Next]_vars => StoredIsKept'
<1> SUFFICES ASSUME IInv, [Next]_vars PROVE StoredIsKept'
  OBVIOUS
<1> USE DEF StoredIsKept, Emp, Enrolling
<1>1. CASE UNCHANGED vars
  BY <1>1 DEF IInv, vars, tables, history
<1>2. ASSUME NEW s \in Requests, Elapse(s) PROVE StoredIsKept'
  BY <1>2 DEF IInv, Elapse, tables, history
<1>3. ASSUME NEW r \in Requests, Begin(r) PROVE StoredIsKept'
  <2>1. UNCHANGED <<embedding, wrote, removed>> /\ r \notin wrote \cup removed
    BY <1>3 DEF Begin, DeleteLoad, RestoreLoad, EnrollLoad, IssueLoad, StatusLoad,
                CompleteLoad, Arrive, tables, IInv, Placed
  <2>2. \A q \in wrote \cup removed : job'[q] = job[q]
    BY <1>3, <2>1, OwnSteps DEF IInv, TypeOK
  <2> QED
    BY <2>1, <2>2 DEF IInv
<1>4. ASSUME NEW r \in Requests, Continue(r) PROVE StoredIsKept'
  <2>1. UNCHANGED job /\ pc[r] # "idle"
    BY <1>4, KeepsJob
  <2>2. CASE UpsertWrite(r)
    <3>1. CASE RowOf(Emp(r)) = found[r]
      <4>1. Emp(r) \in Employees
        BY <2>1, JobType DEF IInv
      <4>2. PICK row \in Requests : embedding' = [embedding EXCEPT ![Emp(r)] = [row |-> row, by |-> r]]
        BY <2>2, <3>1 DEF UpsertWrite, IInv, TypeOK
      <4>3. [row |-> row, by |-> r] # None
        BY EnrollmentAssumption
      <4>4. wrote' = wrote \cup {r} /\ removed' = {d \in removed : Emp(d) # Emp(r)}
        BY <2>2, <3>1 DEF UpsertWrite
      <4> QED
        BY <2>1, <4>1, <4>2, <4>3, <4>4 DEF IInv, TypeOK
    <3>2. CASE RowOf(Emp(r)) # found[r]
      BY <2>1, <2>2, <3>2 DEF UpsertWrite, IInv
    <3> QED
      BY <3>1, <3>2
  <2>3. CASE DeleteRemove(r)
    <3>1. CASE RowOf(Emp(r)) = found[r]
      <4>1. /\ embedding' = [embedding EXCEPT ![Emp(r)] = None]
            /\ removed' = removed \cup {r} /\ UNCHANGED wrote
        BY <2>3, <3>1 DEF DeleteRemove
      <4> QED
        BY <2>1, <4>1 DEF IInv, TypeOK
    <3>2. CASE RowOf(Emp(r)) # found[r]
      BY <2>1, <2>3, <3>2 DEF DeleteRemove, IInv
    <3> QED
      BY <3>1, <3>2
  <2>4. CASE DeleteWrite(r) \/ RestoreWrite(r)
    <3>1. UNCHANGED <<embedding, removed>> /\ wrote' = wrote \cup {r}
      BY <2>4 DEF DeleteWrite, RestoreWrite
    <3>2. ~Enrolling(r)
      BY <2>4 DEF DeleteWrite, RestoreWrite, IInv, Placed
    <3> QED
      BY <2>1, <3>1, <3>2 DEF IInv
  <2>5. CASE ~UpsertWrite(r) /\ ~DeleteRemove(r) /\ ~DeleteWrite(r) /\ ~RestoreWrite(r)
    <3>1. UNCHANGED <<embedding, wrote, removed>>
      BY <1>4, <2>5 DEF Continue, DeleteFind, Upload,
            UploadRefused, UpsertRejected, IssueWrite, ExpireWrite, CompleteCheck,
            CompleteRecheck, CompleteWrite, AuditWrite, Fail, tables, history
    <3> QED
      BY <2>1, <3>1 DEF IInv
  <2> QED
    BY <2>2, <2>3, <2>4, <2>5
<1> QED
  BY <1>1, <1>2, <1>3, <1>4 DEF Next

\* An event is committed last, over what the request has stored before.
LEMMA AuditStep == IInv /\ [Next]_vars => AuditFollows'
<1> SUFFICES ASSUME IInv, [Next]_vars PROVE AuditFollows'
  OBVIOUS
<1> USE DEF AuditFollows, Enrolling, Tok
<1>1. CASE UNCHANGED vars
  BY <1>1 DEF IInv, vars, tables, history
<1>2. ASSUME NEW s \in Requests, Elapse(s) PROVE AuditFollows'
  BY <1>2 DEF IInv, Elapse, tables, history
<1>3. ASSUME NEW r \in Requests, Begin(r) PROVE AuditFollows'
  <2>1. UNCHANGED <<session, wrote, audit>> /\ r \notin audit
    BY <1>3 DEF Begin, DeleteLoad, RestoreLoad, EnrollLoad, IssueLoad, StatusLoad,
                CompleteLoad, Arrive, tables, IInv, Placed
  <2> QED
    BY <1>3, <2>1, OwnSteps DEF IInv, TypeOK
<1>4. ASSUME NEW r \in Requests, Continue(r) PROVE AuditFollows'
  <2>1. UNCHANGED job /\ wrote \subseteq wrote'
    BY <1>4, KeepsJob DEF Continue, DeleteWrite, DeleteFind, DeleteRemove, RestoreWrite,
          Upload, UploadRefused, UpsertWrite, UpsertRejected, IssueWrite, ExpireWrite,
          CompleteCheck, CompleteRecheck, CompleteWrite, AuditWrite, Fail, history
  <2>2. CASE AuditWrite(r)
    <3>1. audit' = audit \cup {r} /\ UNCHANGED <<session, wrote>> /\ pc[r] = "audit"
      BY <2>2 DEF AuditWrite, history
    <3> QED
      BY <2>1, <3>1 DEF IInv, StoredFirst, SessionFirst
  <2>3. CASE ~AuditWrite(r)
    <3>1. UNCHANGED audit
      BY <1>4, <2>3 DEF Continue, DeleteWrite, DeleteFind, DeleteRemove, RestoreWrite,
            Upload, UploadRefused, UpsertWrite, UpsertRejected, IssueWrite, ExpireWrite,
            CompleteCheck, CompleteRecheck, CompleteWrite, Fail, tables
    <3>2. \A s \in Requests :
            /\ session[s] \in {"completed", "expired"}
                 => session'[s] \in {"completed", "expired"}
            /\ session[s] # "absent" => session'[s] # "absent"
      BY <1>4, SessionMoves DEF IInv, TypeOK, Placed, SessionFirst
    <3>3. \A q \in audit : job[q].op = "complete" => Tok(q) \in Requests
      BY JobType DEF IInv, TypeOK, Placed, TokenOps
    <3> QED
      BY <2>1, <3>1, <3>2, <3>3 DEF IInv, TypeOK
  <2> QED
    BY <2>2, <2>3
<1> QED
  BY <1>1, <1>2, <1>3, <1>4 DEF Next

\* The invariant is inductive.
LEMMA StepInv == IInv /\ [Next]_vars => IInv'
  BY TypeStep, PlacedStep, StoredFirstStep, SessionFirstStep, StoredIsKeptStep,
     CompletedStep, AuditStep DEF IInv

-----------------------------------------------------------------------------
\* Under any overlap.  A deactivation that found no face, or removed the one it
\* found, leaves room for those enrolments only that were past their employee
\* check by then.  On a session that two requests never used at the same time,
\* what a request has read is still so when it acts on it.

\* An answer ends the request.
Unanswered == \A r \in InFlight : answer[r] = 0

\* Up to the upsert a request has stored nothing.
NotStored ==
    \A r \in Requests : pc[r] \in {"expire", "check", "upload", "upsert"} => r \notin wrote

\* How far the deactivations of an employee have come, while it is inactive.
Revoking(e) ==
    /\ active[e] => revokers[e] = {}
    /\ ~active[e] => Enrolments(e) \subseteq overtaken[e]
    /\ \A d \in revokers[e] :
        /\ job[d].op = "delete" /\ Emp(d) = e
        /\ pc[d] \in {"delete.find", "delete.remove", "audit", "done"}
        /\ pc[d] = "delete.remove" => Cleared(e) \/ RowOf(e) = found[d]
        /\ pc[d] = "audit" \/ answer[d] = 200 \/ d \in audit => Cleared(e)

\* One request at a time is under way on a session nobody contested.
Alone ==
    \A q, r \in InFlight : q # r /\ Tok(q) = Tok(r) => Tok(r) \in contested \cup {None}

\* It finds the session as it read it, and is the one confirmed.
Undisturbed(r) ==
    Tok(r) \notin contested =>
        /\ pc[r] = "expire" => session[Tok(r)] = "pending"
        /\ job[r].op = "complete" =>
            /\ pc[r] \in {"check", "upload", "upsert", "recheck", "finish"} =>
                session[Tok(r)] = "pending"
            /\ pc[r] = "audit" \/ answer[r] = 200 =>
                session[Tok(r)] = "completed" /\ Confirmed(Tok(r)) \subseteq {r}

SInv == /\ IInv
        /\ Unanswered
        /\ NotStored
        /\ \A e \in Employees : Revoking(e)
        /\ Alone
        /\ \A r \in Requests : Undisturbed(r)
        /\ RefusalHolds

\* No request has arrived.
LEMMA InitSolo == Init => SInv
<1> SUFFICES ASSUME Init PROVE SInv
  OBVIOUS
<1>1. IInv
  BY InitInv
<1>2. InFlight = {}
  BY DEF Init, InFlight
<1>3. \A r \in Requests : Undisturbed(r)
  BY DEF Init, Undisturbed, NoJob
<1>4. \A e \in Employees : Revoking(e)
  BY DEF Init, Revoking
<1> QED
  BY <1>1, <1>2, <1>3, <1>4 DEF SInv, Alone, Unanswered, NotStored, Init, RefusalHolds

\* An arrival leaves all tables as they are and can only contest a session.
LEMMA BeginSteps ==
  ASSUME TypeOK, Placed, NEW r \in Requests, Begin(r)
  PROVE  /\ pc[r] = "idle" /\ job[r] = NoJob /\ answer[r] = 0
         /\ r \notin wrote \cup removed \cup audit
         /\ UNCHANGED <<active, embedding, session, audit, found, revokers, overtaken, wrote>>
         /\ contested' = contested \cup
                {t \in {Tok(r)'} \ {None} : \E q \in InFlight : Tok(q) = t}
<1>1. UNCHANGED <<active, embedding, session, audit, found, revokers, overtaken, wrote>>
  BY DEF Begin, DeleteLoad, RestoreLoad, EnrollLoad, IssueLoad, StatusLoad, CompleteLoad,
         Arrive, tables
<1>2. PICK op, e, s : Arrive(r, op, e, s)
  BY DEF Begin, DeleteLoad, RestoreLoad, EnrollLoad, IssueLoad, StatusLoad, CompleteLoad
<1>3. Tok(r)' = s
  BY <1>2 DEF Arrive, Tok, TypeOK
<1> QED
  BY <1>1, <1>2, <1>3 DEF Arrive, Placed

\* A step of a handler contests nothing and keeps the job.
LEMMA ContinueSteps ==
  ASSUME IInv, Unanswered, NEW r \in Requests, Continue(r)
  PROVE  /\ UNCHANGED <<job, contested>>
         /\ r \in InFlight /\ answer[r] = 0
         /\ Emp(r) \in Employees
         /\ job[r].op \in TokenOps => Tok(r) \in Requests
<1>1. UNCHANGED job /\ r \in InFlight
  BY KeepsJob, OwnSteps DEF IInv, InFlight
<1>2. UNCHANGED contested
  BY DEF Continue, DeleteWrite, DeleteFind, DeleteRemove, RestoreWrite, Upload,
         UploadRefused, UpsertWrite, UpsertRejected, IssueWrite, ExpireWrite,
         CompleteCheck, CompleteRecheck, CompleteWrite, AuditWrite, Fail, history
<1> QED
  BY <1>1, <1>2, JobType DEF IInv, InFlight, Unanswered

\* Whoever else is under way on the session, the session is contested.
LEMMA Solo ==
  ASSUME SInv, NEW r \in Requests, Begin(r) \/ Continue(r),
         NEW q \in InFlight, q # r, Tok(q) = Tok(r)', Tok(q) # None
  PROVE  Tok(q) \in contested'
<1>1. CASE Begin(r)
  BY <1>1, BeginSteps DEF SInv, IInv
<1>2. CASE Continue(r)
  <2>1. r \in InFlight /\ Tok(r)' = Tok(r) /\ UNCHANGED contested
    BY <1>2, ContinueSteps DEF SInv, Tok
  <2> QED
    BY <2>1 DEF SInv, Alone
<1> QED
  BY <1>1, <1>2

\* Contested sessions stay contested.
LEMMA ContestedStays == SInv /\ [Next]_vars => contested \subseteq contested'
<1> SUFFICES ASSUME SInv, [Next]_vars PROVE contested \subseteq contested'
  OBVIOUS
<1>1. CASE UNCHANGED vars \/ \E s \in Requests : Elapse(s)
  BY <1>1 DEF vars, Elapse, history
<1>2. ASSUME NEW r \in Requests, Begin(r) \/ Continue(r) PROVE contested \subseteq contested'
  BY <1>2, BeginSteps, ContinueSteps DEF SInv, IInv
<1> QED
  BY <1>1, <1>2 DEF Next

\* A request that joins another on a session contests it.
LEMMA AloneStep == SInv /\ [Next]_vars => Alone'
<1> SUFFICES ASSUME SInv, [Next]_vars PROVE Alone'
  OBVIOUS
<1>1. CASE UNCHANGED vars
  BY <1>1 DEF SInv, Alone, InFlight, Tok, vars, history
<1>2. ASSUME NEW s \in Requests, Elapse(s) PROVE Alone'
  BY <1>2 DEF SInv, Alone, InFlight, Tok, Elapse, history
<1>3. ASSUME NEW r \in Requests, Begin(r) \/ Continue(r) PROVE Alone'
  <2> SUFFICES ASSUME NEW p \in InFlight', NEW q \in InFlight', p # q, Tok(p)' = Tok(q)',
                      Tok(q)' # None
               PROVE  Tok(q)' \in contested'
    BY DEF Alone
  <2>1. \A x \in Requests \ {r} : Tok(x)' = Tok(x) /\ (x \in InFlight' => x \in InFlight)
    BY <1>3, OwnSteps DEF SInv, IInv, Tok, InFlight
  <2>2. p \in Requests /\ q \in Requests
    BY DEF InFlight
  <2>3. CASE p = r \/ q = r
    BY <1>3, <2>1, <2>2, <2>3, Solo
  <2>4. CASE p # r /\ q # r
    BY <2>1, <2>2, <2>4, ContestedStays DEF SInv, Alone
  <2> QED
    BY <2>3, <2>4
<1> QED
  BY <1>1, <1>2, <1>3 DEF Next

\* Answers and stores are recorded where they happen.
LEMMA RecordsStep == SInv /\ [Next]_vars => Unanswered' /\ NotStored'
<1> SUFFICES ASSUME SInv, [Next]_vars PROVE Unanswered' /\ NotStored'
  OBVIOUS
<1> USE DEF Unanswered, NotStored
<1>1. CASE UNCHANGED vars
  BY <1>1 DEF SInv, InFlight, vars, tables, history
<1>2. ASSUME NEW s \in Requests, Elapse(s) PROVE Unanswered' /\ NotStored'
  BY <1>2 DEF SInv, InFlight, Elapse, tables, history
<1>3. ASSUME NEW r \in Requests, Begin(r) PROVE Unanswered' /\ NotStored'
  <2>1. UNCHANGED wrote /\ r \notin wrote /\ answer[r] = 0
    BY <1>3, BeginSteps DEF SInv, IInv
  <2>2. answer'[r] = 0 \/ pc'[r] = "done"
    BY <1>3, <2>1 DEF Begin, DeleteLoad, RestoreLoad, EnrollLoad, IssueLoad, StatusLoad,
                CompleteLoad, Arrive, Goto, Reply, SInv, IInv, TypeOK
  <2>3. Unanswered'
    BY <1>3, <2>2, OwnSteps DEF SInv, IInv, InFlight
  <2>4. NotStored'
    BY <1>3, <2>1, OwnSteps DEF SInv, IInv
  <2> QED
    BY <2>3, <2>4
<1>4. ASSUME NEW r \in Requests, Continue(r) PROVE Unanswered' /\ NotStored'
  <2>1. r \in InFlight
    BY <1>4, ContinueSteps DEF SInv
  <2>2. answer'[r] = answer[r] \/ pc'[r] = "done"
    BY <1>4 DEF Continue, DeleteWrite, DeleteFind, DeleteRemove, RestoreWrite, Upload,
                UploadRefused, UpsertWrite, UpsertRejected, IssueWrite, ExpireWrite,
                CompleteCheck, CompleteRecheck, CompleteWrite, AuditWrite, Fail,
                Committed, Goto, Reply, SInv, IInv, TypeOK
  <2>3. Unanswered'
    BY <1>4, <2>1, <2>2, OwnSteps DEF SInv, IInv, InFlight
  <2>4. wrote' \subseteq wrote \cup {r}
    BY <1>4 DEF Continue, DeleteWrite, DeleteFind, DeleteRemove, RestoreWrite, Upload,
                UploadRefused, UpsertWrite, UpsertRejected, IssueWrite, ExpireWrite,
                CompleteCheck, CompleteRecheck, CompleteWrite, AuditWrite, Fail, history
  <2>5. pc'[r] \in {"expire", "check", "upload", "upsert"}
          => /\ pc[r] \in {"expire", "check", "upload", "upsert"}
             /\ UNCHANGED wrote
    BY <1>4 DEF Continue, DeleteWrite, DeleteFind, DeleteRemove, RestoreWrite, Upload,
                UploadRefused, UpsertWrite, UpsertRejected, IssueWrite, ExpireWrite,
                CompleteCheck, CompleteRecheck, CompleteWrite, AuditWrite, Fail,
                Committed, Goto, Reply, SInv, IInv, TypeOK, history
  <2>6. NotStored'
    BY <1>4, <2>4, <2>5, OwnSteps DEF SInv, IInv
  <2> QED
    BY <2>3, <2>6
<1> QED
  BY <1>1, <1>2, <1>3, <1>4 DEF Next

\* A completion joins the confirmed ones of its token with its audit event.
LEMMA ConfirmMoves ==
  ASSUME SInv, NEW r \in Requests, Begin(r) \/ Continue(r), NEW s, NEW q \in Confirmed(s)'
  PROVE  \/ q \in Confirmed(s)
         \/ /\ q = r /\ Tok(r) = s /\ job[r].op = "complete"
            /\ pc[r] = "audit" /\ UNCHANGED session
<1>1. CASE q # r
  BY <1>1, OwnSteps DEF SInv, IInv, Confirmed, Tok
<1>2. CASE q = r /\ Begin(r)
  BY <1>2 DEF Begin, DeleteLoad, RestoreLoad, EnrollLoad, IssueLoad, StatusLoad,
              CompleteLoad, Arrive, Goto, Reply, SInv, IInv, TypeOK, Placed, Confirmed
<1>3. CASE q = r /\ Continue(r)
  <2>1. job'[r] = job[r] /\ answer'[r] = 200 /\ job[r].op = "complete" /\ Tok(r) = s
    BY <1>3, KeepsJob DEF Confirmed, Tok
  <2>2. answer[r] = 200 \/ pc[r] = "audit"
    BY <1>3, <2>1 DEF Continue, DeleteWrite, DeleteFind, DeleteRemove, RestoreWrite, Upload,
                UploadRefused, UpsertWrite, UpsertRejected, IssueWrite, ExpireWrite,
                CompleteCheck, CompleteRecheck, CompleteWrite, AuditWrite, Fail,
                Committed, Goto, Reply, SInv, IInv, TypeOK
  <2>3. pc[r] = "audit" => UNCHANGED session
    BY <1>3, SessionMoves DEF SInv
  <2> QED
    BY <1>3, <2>1, <2>2, <2>3 DEF Confirmed
<1> QED
  BY <1>1, <1>2, <1>3

\* What a step does to a session that it does not contest: it issues it, or its
\* own request finds it pending.
LEMMA SessionKept ==
  ASSUME SInv, NEW r \in Requests, Begin(r) \/ Continue(r), NEW s \in Requests,
         s \notin contested, session'[s] # session[s]
  PROVE  \/ session[s] = "absent" /\ session'[s] = "pending"
         \/ /\ Tok(r) = s /\ r \in InFlight /\ pc[r] # "audit"
            /\ session[s] = "pending" /\ session'[s] \in {"completed", "expired"}
<1>1. Continue(r)
  BY BeginSteps DEF SInv, IInv
<1>2. r \in InFlight /\ (job[r].op \in TokenOps => Tok(r) \in Requests)
  BY <1>1, ContinueSteps DEF SInv
<1>3. pc[r] = "issue.write" => session[r] = "absent"
  BY DEF SInv, IInv, SessionFirst
<1>4. pc[r] \in {"expire", "finish"} /\ Tok(r) = s => session[s] = "pending"
  BY DEF SInv, IInv, Placed, Undisturbed
<1> QED
  BY <1>1, <1>2, <1>3, <1>4, SessionMoves DEF SInv, IInv, TypeOK, Placed

\* Nobody else's session is touched.
LEMMA UndisturbedOther ==
  ASSUME SInv, NEW r \in Requests, Begin(r) \/ Continue(r), NEW q \in Requests \ {r}
  PROVE  Undisturbed(q)'
<1>1. /\ Tok(q)' = Tok(q) /\ pc'[q] = pc[q] /\ job'[q] = job[q] /\ answer'[q] = answer[q]
      /\ contested \subseteq contested'
  BY OwnSteps, ContestedStays DEF SInv, IInv, Tok, Next
<1>2. CASE Tok(q) \in contested' \/ job[q].op \notin TokenOps
  BY <1>1, <1>2 DEF Undisturbed, SInv, IInv, Placed, TokenOps
<1>3. CASE Tok(q) \notin contested' /\ job[q].op \in TokenOps
  <2>1. pc[q] # "idle" /\ Tok(q) \in Requests
    BY <1>3, JobType DEF SInv, IInv, Placed, NoJob, TokenOps
  <2>2. PICK t \in Requests : t = Tok(q)
    BY <2>1
  <2>3. t \notin contested /\ t # None /\ Undisturbed(q)
    BY <1>1, <1>3, <2>2, EnrollmentAssumption DEF SInv
  <2>4. CASE q \in InFlight
    <3>1. Tok(r)' # t
      BY <1>3, <2>2, <2>3, <2>4, Solo
    <3>2. r \in InFlight => Tok(r) # t
      BY <2>2, <2>3, <2>4 DEF SInv, Alone
    <3>3. session'[t] = session[t] \/ session[t] = "absent"
      BY <2>3, <3>2, SessionKept
    <3>4. session[t] # "absent"
      BY <1>3, <2>2 DEF SInv, IInv, SessionFirst
    <3>5. Confirmed(t)' \subseteq Confirmed(t)
      <4>1. pc[r] = "audit" => r \in InFlight
        BY DEF InFlight
      <4> QED
        BY <3>2, <4>1, ConfirmMoves
    <3>6. Confirmed(Tok(q))' = Confirmed(t)'
      BY <1>1, <2>2 DEF Confirmed
    <3> QED
      BY <1>1, <2>2, <2>3, <3>3, <3>4, <3>5, <3>6 DEF Undisturbed
  <2>5. CASE q \notin InFlight /\ answer[q] = 200 /\ job[q].op = "complete"
    <3>1. pc[q] = "done" /\ answer[q] = 200 /\ job[q].op = "complete"
      BY <2>1, <2>5 DEF InFlight
    <3>2. session[t] = "completed" /\ Confirmed(t) \subseteq {q} /\ q \in Confirmed(t)
      BY <2>2, <2>3, <3>1 DEF Undisturbed, Confirmed
    <3>3. session'[t] = "completed"
      BY <2>3, <3>2, SessionKept
    <3>4. ASSUME NEW p \in Confirmed(t)' PROVE p = q
      <4>1. \/ p \in Confirmed(t)
            \/ p = r /\ Tok(r) = t /\ job[r].op = "complete" /\ pc[r] = "audit"
        BY ConfirmMoves
      <4>2. pc[r] = "audit" /\ Tok(r) = t /\ job[r].op = "complete" => Confirmed(t) \subseteq {r}
        BY <2>3 DEF SInv, Undisturbed
      <4> QED
        BY <3>2, <4>1, <4>2
    <3>5. Confirmed(Tok(q))' = Confirmed(t)'
      BY <1>1, <2>2 DEF Confirmed
    <3> QED
      BY <1>1, <2>2, <3>1, <3>3, <3>4, <3>5 DEF Undisturbed
  <2>6. CASE q \notin InFlight /\ ~(answer[q] = 200 /\ job[q].op = "complete")
    BY <1>1, <2>1, <2>6 DEF Undisturbed, InFlight
  <2> QED
    BY <2>4, <2>5, <2>6
<1> QED
  BY <1>2, <1>3

\* The request that takes a step still finds its session as it has read it.
LEMMA UndisturbedSelf ==
  ASSUME SInv, NEW r \in Requests, Begin(r) \/ Continue(r)
  PROVE  Undisturbed(r)'
<1> USE DEF Undisturbed, Tok
<1>1. CASE Begin(r)
  <2>1. UNCHANGED session
    BY <1>1, BeginSteps DEF SInv, IInv
  <2>2. /\ pc'[r] \notin {"audit", "upsert", "recheck", "finish"}
        /\ job'[r].op = "complete" => pc'[r] # "upload" /\ answer'[r] # 200
        /\ pc'[r] \in {"expire", "check"} => session[job'[r].tok] = "pending"
    BY <1>1 DEF Begin, DeleteLoad, RestoreLoad, EnrollLoad, IssueLoad, StatusLoad,
                CompleteLoad, Arrive, Goto, Reply, SInv, IInv, TypeOK, Placed
  <2> QED
    BY <2>1, <2>2
<1>2. CASE Continue(r)
  <2>1. /\ UNCHANGED <<job, contested>> /\ answer[r] = 0 /\ Undisturbed(r) /\ TypeOK
        /\ job[r].op \in TokenOps => Tok(r) \in Requests
    BY <1>2, ContinueSteps DEF SInv, IInv
  <2>2. CASE CompleteWrite(r)
    <3> SUFFICES ASSUME Tok(r) \notin contested PROVE Undisturbed(r)'
      BY <2>1
    <3>1. pc[r] = "finish" /\ job[r].op = "complete" /\ session[Tok(r)] = "pending"
      BY <2>1, <2>2 DEF CompleteWrite, SInv, IInv, Placed
    <3>2. PICK t \in Requests : t = Tok(r)
      BY <2>1, <3>1 DEF TokenOps
    <3>3. Confirmed(t) = {}
      BY <3>1, <3>2 DEF SInv, Confirmed
    <3>4. Confirmed(t)' = {}
      BY <1>2, <3>1, <3>3, ConfirmMoves
    <3>5. session'[t] = "completed" /\ pc'[r] \in {"audit", "done"}
      BY <2>1, <2>2, <3>2 DEF CompleteWrite, Committed, Goto, Reply, TypeOK
    <3>6. Confirmed(Tok(r))' = Confirmed(t)' /\ Tok(r)' = t
      BY <2>1, <3>2 DEF Confirmed
    <3> QED
      BY <3>1, <3>4, <3>5, <3>6, <2>1
  <2>3. CASE AuditWrite(r)
    <3>1. UNCHANGED session /\ pc'[r] = "done" /\ pc[r] = "audit"
      BY <2>1, <2>3 DEF AuditWrite, Reply, TypeOK
    <3>2. CASE job[r].op = "complete" /\ Tok(r) \notin contested
      <4>1. PICK t \in Requests : t = Tok(r)
        BY <2>1, <3>2 DEF TokenOps
      <4>2. Confirmed(t) \subseteq {r} /\ session[t] = "completed"
        BY <2>1, <3>1, <3>2, <4>1
      <4>3. Confirmed(t)' \subseteq {r}
        BY <1>2, <4>2, ConfirmMoves
      <4>4. Confirmed(Tok(r))' = Confirmed(t)'
        BY <2>1, <4>1 DEF Confirmed
      <4> QED
        BY <2>1, <3>1, <4>1, <4>2, <4>3, <4>4
    <3>3. CASE job[r].op # "complete" \/ Tok(r) \in contested
      BY <2>1, <3>1, <3>3
    <3> QED
      BY <3>2, <3>3
  <2>4. CASE Upload(r) \/ CompleteCheck(r) \/ CompleteRecheck(r)
    BY <2>1, <2>4 DEF Upload, CompleteCheck, CompleteRecheck, Goto, Reply, TypeOK,
       SInv, IInv, Placed, tables
  <2>5. CASE UpsertWrite(r)
    <3>1. /\ UNCHANGED session
          /\ pc'[r] \in {"recheck", "audit", "done"} /\ answer'[r] # 200
          /\ pc'[r] = "audit" => job[r].op = "enroll"
      BY <2>1, <2>5 DEF UpsertWrite, Committed, Goto, Reply, TypeOK, SInv, IInv, Placed,
         Enrolling
    <3> QED
      BY <2>1, <2>5, <3>1 DEF UpsertWrite
  <2>6. CASE \/ DeleteWrite(r) \/ DeleteFind(r) \/ DeleteRemove(r) \/ RestoreWrite(r)
             \/ UploadRefused(r) \/ UpsertRejected(r) \/ IssueWrite(r) \/ ExpireWrite(r)
             \/ Fail(r)
    <3>1. /\ pc'[r] \in {"delete.find", "delete.remove", "audit", "done"}
          /\ pc'[r] = "audit" => job[r].op \in {"restore", "issue", "delete"}
          /\ answer'[r] = 200 => job[r].op = "status"
      BY <2>1, <2>6 DEF DeleteWrite, DeleteFind, DeleteRemove, RestoreWrite, UploadRefused,
         UpsertRejected, IssueWrite, ExpireWrite, Fail, Committed, Goto, Reply, TypeOK, SInv,
         IInv, Placed, TokenOps
    <3> QED
      BY <2>1, <3>1
  <2> QED
    BY <1>2, <2>2, <2>3, <2>4, <2>5, <2>6 DEF Continue
<1> QED
  BY <1>1, <1>2

\* Everyone finds the session as he has read it.
LEMMA UndisturbedStep == SInv /\ [Next]_vars => \A q \in Requests : Undisturbed(q)'
<1> SUFFICES ASSUME SInv, [Next]_vars, NEW q \in Requests PROVE Undisturbed(q)'
  OBVIOUS
<1>1. CASE UNCHANGED vars
  BY <1>1 DEF SInv, Undisturbed, Tok, Confirmed, vars, tables, history
<1>2. ASSUME NEW s \in Requests, Elapse(s) PROVE Undisturbed(q)'
  BY <1>2 DEF SInv, Undisturbed, Tok, Confirmed, Elapse, tables, history
<1>3. ASSUME NEW r \in Requests, Begin(r) \/ Continue(r) PROVE Undisturbed(q)'
  BY <1>3, UndisturbedSelf, UndisturbedOther
<1> QED
  BY <1>1, <1>2, <1>3 DEF Next

\* A refusal comes before the upsert.
LEMMA RefusalStep == SInv /\ [Next]_vars => RefusalHolds'
<1> SUFFICES ASSUME SInv, [Next]_vars, NEW q \in wrote', answer'[q] = 410,
                    Tok(q)' \notin contested'
             PROVE  FALSE
  BY DEF RefusalHolds
<1>1. q \in Requests
  BY TypeStep DEF SInv, IInv, TypeOK
<1>2. CASE UNCHANGED vars \/ \E s \in Requests : Elapse(s)
  BY <1>2 DEF SInv, RefusalHolds, vars, Elapse, Tok, tables, history
<1>3. ASSUME NEW r \in Requests, Begin(r) PROVE FALSE
  <2>1. UNCHANGED wrote /\ r \notin wrote /\ contested \subseteq contested'
    BY <1>3, BeginSteps DEF SInv, IInv
  <2>2. q # r /\ Tok(q)' = Tok(q) /\ answer'[q] = answer[q]
    BY <1>1, <1>3, <2>1, OwnSteps DEF SInv, IInv, Tok
  <2> QED
    BY <2>1, <2>2 DEF SInv, RefusalHolds
<1>4. ASSUME NEW r \in Requests, Continue(r) PROVE FALSE
  <2>1. UNCHANGED <<job, contested>> /\ r \in InFlight /\ answer[r] = 0
    BY <1>4, ContinueSteps DEF SInv
  <2>2. wrote' \subseteq wrote \cup {r}
    BY <1>4 DEF Continue, DeleteWrite, DeleteRemove, RestoreWrite, UpsertWrite, AuditWrite,
                DeleteFind, Upload, UploadRefused, UpsertRejected, IssueWrite,
                ExpireWrite, CompleteCheck, CompleteRecheck, CompleteWrite, Fail, history
  <2>3. CASE q # r
    <3>1. q \in wrote /\ answer[q] = 410
      BY <1>1, <1>4, <2>2, <2>3, OwnSteps DEF SInv, IInv
    <3> QED
      BY <2>1, <3>1 DEF SInv, RefusalHolds, Tok
  <2>4. CASE q = r
    <3>1. pc[r] = "recheck" => job[r].op = "complete" /\ session[Tok(r)] = "pending"
      BY <2>1, <2>4 DEF SInv, IInv, Placed, Undisturbed, Tok
    <3>2. pc[r] \in {"expire", "check"} /\ UNCHANGED wrote
      BY <1>4, <2>1, <2>4, <3>1 DEF Continue, DeleteWrite, DeleteRemove, RestoreWrite,
                UpsertWrite, AuditWrite, DeleteFind, Upload, UploadRefused, UpsertRejected, IssueWrite,
                ExpireWrite, CompleteCheck, CompleteRecheck, CompleteWrite, Fail,
                Committed, Goto, Reply, SInv, IInv, TypeOK, history
    <3> QED
      BY <2>4, <3>2 DEF SInv, NotStored
  <2> QED
    BY <2>3, <2>4
<1> QED
  BY <1>2, <1>3, <1>4 DEF Next

\* A deactivation clears the face and only an overtaken enrolment brings one back.
LEMMA RevokingStep == SInv /\ [Next]_vars => \A e \in Employees : Revoking(e)'
<1> SUFFICES ASSUME SInv, [Next]_vars, NEW e \in Employees PROVE Revoking(e)'
  OBVIOUS
<1> USE DEF Revoking, Cleared, Enrolments
<1>1. CASE UNCHANGED vars
  BY <1>1 DEF SInv, Emp, RowOf, vars, tables, history
<1>2. ASSUME NEW s \in Requests, Elapse(s) PROVE Revoking(e)'
  BY <1>2 DEF SInv, Emp, RowOf, Elapse, tables, history
<1>3. Revoking(e) /\ TypeOK /\ Placed
  BY DEF SInv, IInv
<1>4. ASSUME NEW r \in Requests, Begin(r) PROVE Revoking(e)'
  <2>1. /\ UNCHANGED <<active, embedding, found, revokers, overtaken, audit>>
        /\ pc[r] = "idle" /\ job[r] = NoJob
    BY <1>3, <1>4, BeginSteps
  <2>2. pc'[r] # "upsert" /\ (pc'[r] = "upload" => active[job'[r].emp])
    BY <1>3, <1>4 DEF Begin, DeleteLoad, RestoreLoad, EnrollLoad, IssueLoad, StatusLoad,
                CompleteLoad, Arrive, Goto, Reply, TypeOK
  <2>3. \A q \in Requests \ {r} :
            pc'[q] = pc[q] /\ answer'[q] = answer[q] /\ job'[q] = job[q]
    BY <1>3, <1>4, OwnSteps
  <2>4. revokers[e] \subseteq Requests \ {r}
    BY <1>3, <2>1 DEF TypeOK, NoJob
  <2>5. \A d \in revokers[e] : pc'[d] = pc[d] /\ answer'[d] = answer[d] /\ job'[d] = job[d]
    BY <2>3, <2>4
  <2>6. ~active'[e] => Enrolments(e)' \subseteq overtaken'[e]
    BY <1>3, <2>1, <2>2, <2>3 DEF Emp
  <2> QED
    BY <1>3, <2>1, <2>5, <2>6 DEF Emp, RowOf
<1>5. ASSUME NEW r \in Requests, Continue(r) PROVE Revoking(e)'
  <2>1. UNCHANGED job /\ r \in InFlight /\ answer[r] = 0 /\ Emp(r) \in Employees
    BY <1>5, ContinueSteps DEF SInv
  <2>2. \A q \in Requests \ {r} : pc'[q] = pc[q] /\ answer'[q] = answer[q]
    BY <1>3, <1>5, OwnSteps
  <2>3. \A q \in Requests : Emp(q)' = Emp(q)
    BY <2>1 DEF Emp
  <2>4. revokers[e] \subseteq Requests
    BY <1>3 DEF TypeOK
  <2>5. CASE DeleteWrite(r)
    <3>1. /\ UNCHANGED <<embedding, found, audit>>
          /\ job[r].op = "delete" /\ r \notin audit
          /\ pc'[r] \in {"delete.find", "done"} /\ answer'[r] # 200
      BY <1>3, <2>1, <2>5 DEF DeleteWrite, Committed, Goto, Reply, TypeOK, Placed
    <3>2. Enrolments(e)' \subseteq Enrolments(e)
      BY <2>2, <2>3, <3>1
    <3>3. CASE Emp(r) # e
      <4>1. /\ active'[e] = active[e] /\ revokers'[e] = revokers[e]
            /\ overtaken'[e] = overtaken[e]
        <5>1. active'[e] = active[e]
          <6>1. active' = active \/ active' = [active EXCEPT ![Emp(r)] = FALSE]
            BY <2>5 DEF DeleteWrite
          <6> QED
            BY <1>3, <3>3, <6>1 DEF TypeOK
        <5>2. revokers'[e] = revokers[e]
          BY <1>3, <2>5, <3>3 DEF DeleteWrite, TypeOK
        <5>3. overtaken'[e] = overtaken[e]
          BY <1>3, <2>5, <3>3 DEF DeleteWrite, TypeOK
        <5> QED
          BY <5>1, <5>2, <5>3
      <4>2. r \notin revokers[e]
        BY <1>3, <3>3
      <4> QED
        BY <1>3, <2>1, <2>2, <2>3, <2>4, <3>1, <3>2, <4>1, <4>2 DEF RowOf
    <3>4. CASE Emp(r) = e
      <4>1. revokers'[e] = IF active'[e] THEN {} ELSE revokers[e] \cup {r}
        BY <1>3, <2>5, <3>4 DEF DeleteWrite, TypeOK
      <4>2. overtaken'[e] = IF active[e] /\ ~active'[e] THEN Enrolments(e) ELSE overtaken[e]
        BY <1>3, <2>5, <3>4 DEF DeleteWrite, TypeOK
      <4>3. active'[e] => active[e]
        BY <1>3, <2>5, <3>4 DEF DeleteWrite, TypeOK
      <4>4. ~active'[e] => Enrolments(e)' \subseteq overtaken'[e]
        BY <1>3, <3>2, <4>2
      <4>5. ASSUME NEW d \in revokers'[e]
            PROVE  /\ job'[d].op = "delete" /\ Emp(d)' = e
                   /\ pc'[d] \in {"delete.find", "delete.remove", "audit", "done"}
                   /\ pc'[d] = "delete.remove" => Cleared(e)' \/ RowOf(e)' = found'[d]
                   /\ pc'[d] = "audit" \/ answer'[d] = 200 \/ d \in audit' => Cleared(e)'
        <5>1. CASE d = r
          BY <2>1, <2>3, <3>1, <3>4, <5>1
        <5>2. CASE d # r
          <6>1. d \in revokers[e] /\ d \in Requests
            BY <2>4, <4>1, <4>5, <5>2
          <6>2. ~active[e] /\ overtaken'[e] = overtaken[e]
            BY <1>3, <4>2, <6>1
          <6> QED
            BY <1>3, <2>1, <2>2, <2>3, <3>1, <5>2, <6>1, <6>2 DEF RowOf
        <5> QED
          BY <5>1, <5>2
      <4> QED
        BY <4>1, <4>4, <4>5
    <3> QED
      BY <3>3, <3>4
  <2>6. CASE DeleteFind(r)
    <3>1. /\ UNCHANGED <<active, embedding, revokers, overtaken, answer, audit>>
          /\ found' = [found EXCEPT ![r] = RowOf(Emp(r))]
          /\ pc' = [pc EXCEPT ![r] = IF RowOf(Emp(r)) = None THEN "audit" ELSE "delete.remove"]
      BY <2>6 DEF DeleteFind, Goto, tables, history
    <3>2. RowOf(e) = None => embedding[e] = None
      BY <1>3, EnrollmentAssumption DEF RowOf, Rows, TypeOK
    <3> QED
      BY <1>3, <2>1, <2>2, <2>3, <2>4, <3>1, <3>2 DEF TypeOK, RowOf
  <2>7. CASE DeleteRemove(r)
    <3>1. /\ UNCHANGED <<active, revokers, overtaken, found, audit>>
          /\ pc'[r] \in {"audit", "done"} /\ answer'[r] # 200 /\ pc[r] = "delete.remove"
      BY <1>3, <2>1, <2>7 DEF DeleteRemove, Committed, Goto, Reply, TypeOK
    <3>2. embedding'[e] \in {embedding[e], None}
      BY <1>3, <2>7 DEF DeleteRemove, TypeOK
    <3>3. RowOf(e) = found[r] /\ Emp(r) = e => embedding'[e] = None
      BY <1>3, <2>7 DEF DeleteRemove, TypeOK
    <3>4. Cleared(e) => Cleared(e)'
      BY <3>1, <3>2
    <3>5. Cleared(e)' \/ RowOf(e)' = RowOf(e)
      BY <3>2 DEF RowOf
    <3>6. \A d \in revokers[e] : d # r =>
            /\ pc[d] = "delete.remove" => Cleared(e)' \/ RowOf(e)' = found'[d]
            /\ pc[d] = "audit" \/ answer[d] = 200 \/ d \in audit => Cleared(e)'
      BY <1>3, <3>1, <3>4, <3>5
    <3>7. r \in revokers[e] => Cleared(e)'
      BY <1>3, <3>1, <3>3, <3>4
    <3>8. Enrolments(e)' \subseteq Enrolments(e)
      BY <2>2, <2>3, <3>1
    <3> HIDE DEF Cleared, Enrolments
    <3> QED
      BY <1>3, <2>1, <2>2, <2>3, <2>4, <3>1, <3>6, <3>7, <3>8
  <2>8. CASE RestoreWrite(r)
    <3>1. /\ UNCHANGED <<embedding, found, overtaken, audit>>
          /\ job[r].op = "restore"
          /\ pc'[r] \in {"audit", "done"} /\ answer'[r] # 200
      BY <1>3, <2>1, <2>8 DEF RestoreWrite, Committed, Goto, Reply, TypeOK, Placed
    <3>2. /\ revokers'[e] \in {revokers[e], {}} /\ (active[e] => active'[e])
          /\ active'[e] => revokers'[e] = {}
      BY <1>3, <2>8 DEF RestoreWrite, TypeOK
    <3>3. r \notin revokers[e]
      BY <1>3, <3>1
    <3>4. Enrolments(e)' \subseteq Enrolments(e)
      BY <2>2, <2>3, <3>1
    <3> HIDE DEF Enrolments
    <3> QED
      BY <1>3, <2>1, <2>2, <2>3, <2>4, <3>1, <3>2, <3>3, <3>4 DEF RowOf
  <2>9. CASE UpsertWrite(r)
    <3>1. /\ UNCHANGED <<active, revokers, overtaken, found, audit>>
          /\ pc'[r] \in {"recheck", "audit", "done"} /\ answer'[r] # 200
          /\ pc[r] = "upsert" /\ Enrolling(r)
      BY <1>3, <2>1, <2>9 DEF UpsertWrite, Committed, Goto, Reply, TypeOK, Placed
    <3>2. r \notin revokers[e]
      BY <1>3, <3>1 DEF Enrolling
    <3>3. \/ embedding'[e] = embedding[e]
          \/ Emp(r) = e /\ embedding'[e].by = r
      BY <1>3, <2>9 DEF UpsertWrite, TypeOK
    <3>4. revokers[e] # {} /\ embedding'[e] # embedding[e] => Cleared(e)'
      BY <1>3, <3>1, <3>3
    <3>5. Enrolments(e)' \subseteq Enrolments(e)
      BY <2>2, <2>3, <3>1
    <3>6. embedding'[e] = embedding[e] =>
            (Cleared(e) => Cleared(e)') /\ RowOf(e)' = RowOf(e)
      BY <3>1 DEF RowOf
    <3> HIDE DEF Cleared, Enrolments
    <3> QED
      BY <1>3, <2>1, <2>2, <2>3, <2>4, <3>1, <3>2, <3>4, <3>5, <3>6
  <2>10. CASE \/ Upload(r) \/ UploadRefused(r) \/ UpsertRejected(r) \/ IssueWrite(r)
              \/ ExpireWrite(r) \/ CompleteCheck(r) \/ CompleteRecheck(r)
              \/ CompleteWrite(r) \/ AuditWrite(r) \/ Fail(r)
    <3>1. /\ UNCHANGED <<active, embedding, revokers, overtaken>>
          /\ \A q \in Requests \ {r} : found'[q] = found[q]
          /\ audit' = audit \/ (audit' = audit \cup {r} /\ pc[r] = "audit")
      BY <1>3, <2>10 DEF Upload, UploadRefused, UpsertRejected, IssueWrite, ExpireWrite,
         CompleteCheck, CompleteRecheck, CompleteWrite, AuditWrite, Fail, tables, history, TypeOK
    <3>2. /\ pc'[r] # "delete.remove"
          /\ pc'[r] \in {"upload", "upsert"} => active[Emp(r)] \/ pc[r] \in {"upload", "upsert"}
          /\ job[r].op = "delete" => /\ pc'[r] \in {"audit", "done"}
                                     /\ pc'[r] = "audit" \/ answer'[r] = 200 => pc[r] = "audit"
      BY <1>3, <2>1, <2>10 DEF Upload, UploadRefused, UpsertRejected, IssueWrite, ExpireWrite,
         CompleteCheck, CompleteRecheck, CompleteWrite, AuditWrite, Fail, Goto, Reply,
         Committed, TypeOK, Placed, Enrolling, TokenOps
    <3>3. ~active[e] => Enrolments(e)' \subseteq Enrolments(e)
      BY <2>2, <2>3, <3>2
    <3> HIDE DEF Enrolments
    <3> QED
      BY <1>3, <2>1, <2>2, <2>3, <2>4, <3>1, <3>2, <3>3 DEF RowOf
  <2> QED
    BY <1>5, <2>5, <2>6, <2>7, <2>8, <2>9, <2>10 DEF Continue
<1> QED
  BY <1>1, <1>2, <1>4, <1>5 DEF Next

\* The stronger invariant is inductive too.
LEMMA StepSolo == SInv /\ [Next]_vars => SInv'
  BY StepInv, AloneStep, RecordsStep, RevokingStep, UndisturbedStep, RefusalStep DEF SInv

\* Who is confirmed stays confirmed.
LEMMA ConfirmedStays ==
  ASSUME SInv, NEW r \in Requests, Begin(r) \/ Continue(r), NEW s
  PROVE  Confirmed(s) \subseteq Confirmed(s)'
<1> SUFFICES ASSUME NEW q \in Confirmed(s) PROVE q \in Confirmed(s)'
  OBVIOUS
<1>1. q # r
  <2>1. q \in Requests /\ job[q].op = "complete" /\ answer[q] = 200
    BY DEF Confirmed
  <2>2. pc[q] = "done"
    BY <2>1 DEF SInv, IInv, Placed, Unanswered, InFlight, NoJob
  <2> QED
    BY <2>2, OwnSteps DEF SInv, IInv
<1> QED
  BY <1>1, OwnSteps DEF SInv, IInv, Confirmed, Tok

\* A step of the handlers is, for every session, a step of OneTimeSession.
LEMMA OneTimeStep ==
  SInv /\ [Next]_vars =>
      \A s \in Requests : [One(s)!Next \/ s \in contested']_(One(s)!vars)
<1> SUFFICES ASSUME SInv, [Next]_vars, NEW s \in Requests, s \notin contested'
             PROVE  One(s)!Next \/ UNCHANGED <<session[s], Confirmed(s)>>
  BY DEF One!vars
<1>1. CASE UNCHANGED vars
  BY <1>1 DEF Confirmed, Tok, vars, tables
<1>2. ASSUME NEW q \in Requests, Elapse(q) PROVE UNCHANGED <<session[s], Confirmed(s)>>
  BY <1>2 DEF Confirmed, Tok, Elapse, tables
<1>3. ASSUME NEW r \in Requests, Begin(r) \/ Continue(r)
      PROVE  One(s)!Next \/ UNCHANGED <<session[s], Confirmed(s)>>
  <2>1. s \notin contested
    BY ContestedStays
  <2>2. Confirmed(s) \subseteq Confirmed(s)'
    BY <1>3, ConfirmedStays
  <2>3. CASE Confirmed(s)' \subseteq Confirmed(s)
    <3>1. \/ session'[s] = session[s]
          \/ session[s] = "absent" /\ session'[s] = "pending"
          \/ session[s] = "pending" /\ session'[s] \in {"completed", "expired"}
      BY <1>3, <2>1, SessionKept
    <3> QED
      BY <2>2, <2>3, <3>1 DEF One!Next, One!Move
  <2>4. CASE ~(Confirmed(s)' \subseteq Confirmed(s))
    <3>1. PICK q \in Confirmed(s)' : q \notin Confirmed(s)
      BY <2>4
    <3>2. /\ q = r /\ Tok(r) = s /\ job[r].op = "complete"
          /\ pc[r] = "audit" /\ UNCHANGED session
      BY <1>3, <3>1, ConfirmMoves
    <3>3. session[s] = "completed" /\ Confirmed(s) \subseteq {r}
      BY <2>1, <3>2 DEF SInv, Undisturbed
    <3>4. Confirmed(s) = {}
      BY <3>1, <3>2, <3>3
    <3>5. Confirmed(s)' = {r}
      BY <1>3, <3>1, <3>2, <3>4, ConfirmMoves
    <3> QED
      BY <3>2, <3>3, <3>4, <3>5 DEF One!Next, One!Confirm
  <2> QED
    BY <2>3, <2>4
<1> QED
  BY <1>1, <1>2, <1>3 DEF Next

-----------------------------------------------------------------------------
\* Every variable keeps its type, whatever overlaps.
THEOREM TypeCorrect == Spec => []TypeOK
  BY InitInv, StepInv, PTL DEF Spec, IInv

\* A completed session has enrolled a face.
THEOREM CompletionHasEnrolled == Spec => []CompletedHasEnrolled
  BY InitInv, StepInv, PTL DEF Spec, IInv

\* Audit events follow the commits they report, and the revocation of a face that
\* a deactivation reports is in the table, but for the enrolments it overtook.
THEOREM AuditTrail == Spec => []AuditIsTruthful
<1>1. SInv => AuditIsTruthful
  <2> SUFFICES ASSUME SInv, NEW r \in audit, r \in revokers[Emp(r)] PROVE Cleared(Emp(r))
    BY DEF SInv, IInv, AuditFollows, AuditIsTruthful
  <2>1. Emp(r) \in Employees
    BY JobType DEF SInv, IInv, TypeOK, Placed
  <2> QED
    BY <2>1 DEF SInv, Revoking
<1> QED
  BY <1>1, InitSolo, StepSolo, PTL DEF Spec

\* Faces of confirmed enrolments are not lost to races or failures.
THEOREM FacesKept == Spec => []AcknowledgedFaceIsKept
<1>1. IInv => AcknowledgedFaceIsKept
  BY DEF IInv, StoredFirst, StoredIsKept, AcknowledgedFaceIsKept
<1> QED
  BY <1>1, InitInv, StepInv, PTL DEF Spec

\* Whatever overlaps, a deactivation that was answered 200 has revoked the face
\* for as long as the employee stays deactivated, but for the enrolments that
\* were past their employee check when it was committed.
THEOREM RevocationIsKept == Spec => []RevocationHolds
<1>1. SInv => RevocationHolds
  BY DEF SInv, Revoking, RevocationHolds
<1> QED
  BY <1>1, InitSolo, StepSolo, PTL DEF Spec

\* Whatever else overlaps, a completion answered 410 on a session that no two
\* requests used at the same time has stored no face.
THEOREM RefusalsStoreNothing == Spec => []RefusalHolds
  BY InitSolo, StepSolo, PTL DEF Spec, SInv

\* Whatever else overlaps, each session implements OneTimeSession until two
\* requests use it at the same time.
THEOREM SessionsAreOneTime == Spec => OneTime
<1> DEFINE Kept == \A s \in Requests : [One(s)!Next \/ s \in contested']_(One(s)!vars)
<1>1. Init => \A s \in Requests : One(s)!Init
  BY DEF Init, One!Init, Confirmed, NoJob
<1>2. SInv /\ [Next]_vars => Kept
  BY OneTimeStep
<1> QED
  BY <1>1, <1>2, InitSolo, StepSolo, PTL DEF Spec, OneTime
=============================================================================
